---- MODULE Spec2Model ----
(***************************************************************************)
(* Dispatch engine of lambda-express: Application.run, Router.handle,      *)
(* ProcessorChain.run, wrapRequestProcessor and Response.end, modelled as  *)
(* a small-step machine over JavaScript continuations.                     *)
(*                                                                         *)
(* A continuation (a NextCallback closure) is a record [k, a, b]:          *)
(*   k = "run"  : closure number b of the reduce in ProcessorChain.run of  *)
(*                chain-run instance a                                     *)
(*   k = "proc" : the callback Router.handle gives to processor.run, of    *)
(*                handle invocation a (it calls processRequest)            *)
(*   k = "last" : the handler of last resort of Application.run            *)
(*   k = "spy"  : the `done` spy of the ProcessorChain unit tests          *)
(* cur is the call the JavaScript engine is about to make (or the return / *)
(* throw that is unwinding); stack holds the try blocks (and the pending   *)
(* promise callbacks) that enclose it.                                     *)
(***************************************************************************)
EXTENDS Integers, Sequences, FiniteSets, TLC

VARIABLES
    processors,   \* Router._processors of every router: router id -> Seq of chains
    phase,        \* "setup" (registration), "run" (Application.run was called), "chain" (unit test of one chain)
    handles,      \* Router.handle invocations: [router, index, req, next, ci, nextCalled]
    runs,         \* ProcessorChain.run invocations: [h, ci, subs, req, done, invoked, doneCalled]
    cur,          \* [op, k, arg]: what the engine does next
    stack,        \* enclosing try blocks / promise callbacks: Seq of [t, r, i]
    tasks,        \* pending promises returned by handlers: set of [r, i, b]
    resp,         \* Response: [headersSent, statusCode, hasCT, headers, before, after]
    cbCalls,      \* statusCode of every invocation of the Lambda callback, in order
    escaped,      \* exceptions that left Application.run / an event-loop turn uncaught
    hung,         \* some invoked handler neither sent a response nor called next
    routerOptions,\* caseSensitive of every router's routerOptions
    trace,        \* sinon spies of the ProcessorChain tests: Seq of events
    requests,     \* Request objects of the Request tests: Seq of [parent, url, path, baseUrl, originalUrl, params, query, body]
    queries       \* the parsed query objects the requests refer to

vars == <<processors, routerOptions, phase, handles, runs, cur, stack, tasks, resp, cbCalls, escaped, hung, trace,
          requests, queries>>

----------------------------------------------------------------------------
(* Bounds *)

MaxChains == 3   \* chains registered over all routers
MaxChainLen == 3 \* handlers of the chain run alone (ProcessorChain tests)

\* router 0 is the Application, router 1 a Router that can be mounted on it
RouterIds == {0, 1}

----------------------------------------------------------------------------
(* Values *)

NoErr == "undefined"          \* the absent / undefined error argument
RouteSentinel == "route"
RejectedPromise == "Error: Rejected promise"
URIError == "URIError"
SubRouterMismatch == "Error: This subrouter does not match URL"
HeadersSentError == "Error: Can't set headers after they are sent."

\* JavaScript truthiness of an error argument
Truthy(e) == e # NoErr

\* a real failure, as opposed to no error or the route sentinel
IsFailure(e) == e # NoErr /\ e # RouteSentinel

NoMethod == "undefined-method"
Methods == {"GET", "POST"}

KLast == [k |-> "last", a |-> 0, b |-> 0]
KSpy == [k |-> "spy", a |-> 0, b |-> 0]
KProc(h) == [k |-> "proc", a |-> h, b |-> 0]
KRun(r, i) == [k |-> "run", a |-> r, b |-> i]
KNone == [k |-> "none", a |-> 0, b |-> 0]

Idle == [op |-> "idle", k |-> KNone, arg |-> NoErr]
Call(k, e) == [op |-> "call", k |-> k, arg |-> e]
Ret == [op |-> "ret", k |-> KNone, arg |-> NoErr]
Throw(e) == [op |-> "throw", k |-> KNone, arg |-> e]

----------------------------------------------------------------------------
(* URLs are sequences of tokens: "/" , "?" and path segments.              *)

Lit(s) == [p |-> "lit", v |-> s]
Param(s) == [p |-> "param", v |-> s]

\* the route patterns used at registration: '/', '/cars', '/:id'
PRoot == <<>>
PCars == <<Lit("cars")>>
PId == <<Param("id")>>
Patterns == {PRoot, PCars, PId}

\* event.path values: '/cars', '/cars/x', '/%EA' (a malformed escape)
EventPaths == { <<"/", "cars">>, <<"/", "cars", "/", "x">>, <<"/", "%EA">> }

Malformed == {"%EA"}

RECURSIVE IndexOfQ(_, _)
IndexOfQ(url, i) ==
    IF i > Len(url) THEN i
    ELSE IF url[i] = "?" THEN i ELSE IndexOfQ(url, i + 1)

\* url.split('?')[0]
PathOf(url) == SubSeq(url, 1, IndexOfQ(url, 1) - 1)

SegsOf(path) == SelectSeq(path, LAMBDA t : t # "/")

\* the case folding of a regular expression compiled with the i flag
Lower(seg) == IF seg = "CARS" THEN "cars" ELSE seg

PartMatches(part, seg, sensitive) ==
    IF part.p = "lit"
    THEN (IF sensitive THEN part.v = seg ELSE Lower(part.v) = Lower(seg))
    ELSE TRUE

\* pathToRegexp(path, keys, { sensitive, end: true, strict: false }).test(p)
RouteTest(pattern, path, sensitive) ==
    LET segs == SegsOf(path) IN
    /\ Len(segs) = Len(pattern)
    /\ \A i \in 1 .. Len(pattern) : PartMatches(pattern[i], segs[i], sensitive)

\* pathToRegexp(path, [], { sensitive, end: false, strict: false }).test(p)
SubTest(pattern, path, sensitive) ==
    LET segs == SegsOf(path) IN
    /\ Len(segs) >= Len(pattern)
    /\ \A i \in 1 .. Len(pattern) : PartMatches(pattern[i], segs[i], sensitive)

\* result[0] of this._matcher.exec(req.path): the mount prefix, with the
\* slash behind it when the path ends there
SubMatch(pattern, path) ==
    IF Len(path) = 2 * Len(pattern) + 1 /\ path[Len(path)] = "/"
    THEN path
    ELSE SubSeq(path, 1, 2 * Len(pattern))

\* .replace(/\/$/, '')
TrimSlash(s) == IF s # <<>> /\ s[Len(s)] = "/" THEN SubSeq(s, 1, Len(s) - 1) ELSE s

\* the matched prefix is used as it is
SubPrefixUntrimmed(pattern, path) == SubMatch(pattern, path)

\* result[0].replace(/\/$/, ''): the matched mount prefix without trailing slash
SubPrefix(pattern, path) == TrimSlash(SubMatch(pattern, path))

\* err.statusCode of an error in flight: _makeParams attaches 400 to the
\* error of a badly encoded path parameter; 0 stands for no statusCode
ErrorStatusCode(err) == IF err = URIError THEN 400 ELSE 0

\* decodeURIComponent
DecodeThrows(seg) == seg \in Malformed
Decode(seg) == IF seg = "a%20b" THEN "a b" ELSE seg

----------------------------------------------------------------------------
(* Handlers.  A registered handler is known by its arity only (isErr: it   *)
(* declares four parameters); what the user function does when invoked is  *)
(* chosen at each invocation among the behaviours below.                   *)

SyncBehaviours == {"next", "nextErr", "nextRoute", "throw", "send", "sendNext", "hang"}
PromiseBehaviours == {"pResolve", "pNext", "pSend", "pReject", "pRejectEmpty"}

Behaviours(isErr) ==
    SyncBehaviours \cup PromiseBehaviours \cup (IF isErr THEN {"nextPass"} ELSE {})

\* the behaviours that break the RequestProcessor contract: neither a response nor next
Hanging == {"hang", "pResolve"}

\* the error a handler raises: 'Error from "mw"' for a handler, a new one for an error handler
NewErr(isErr) == IF isErr THEN "E2" ELSE "E1"

\* the argument a handler with behaviour b gives to next (synchronously or after an await)
NextArg(b, isErr, err) ==
    CASE b = "nextErr" -> NewErr(isErr)
      [] b = "nextPass" -> err
      [] b = "nextRoute" -> RouteSentinel
      [] OTHER -> NoErr

\* internal re-routing: req.url = '/x' (or '/cars'), then next()
Rerouting == {"urlX", "urlCars"}
UrlAssigned(b) == IF b = "urlX" THEN <<"/", "x">> ELSE <<"/", "cars">>

\* the handlers of the case sensitivity tests: they send, or call next
CaseBehaviours(isErr) == {"next", "send"}

\* the handlers behind a sub-router: they call next, send, throw or pass the error on
SubBehaviours(isErr) == {"next", "send", "throw"} \cup (IF isErr THEN {"nextPass"} ELSE {})

\* the handlers of the re-routing tests: they call next, send, or re-route
RerouteBehaviours(isErr) == {"next", "send"} \cup Rerouting

\* the handlers of a mounted router the parent resumes after: they call next,
\* fail with next(err), or re-route and call next
ResumeBehaviours(isErr) == {"next", "nextErr"} \cup Rerouting

\* the handlers of requests that interleave: they call next at once or after an await
ReuseBehaviours(isErr) == {"next", "pNext"}

\* an async handler that calls next() and then fails: its promise rejects later
NextThenReject == {"nextReject"}

\* the handlers whose promises reject after they called next: calling next,
\* throwing, or returning a promise that calls next or rejects
AsyncBehaviours(isErr) == {"next", "throw", "pNext", "pReject"} \cup NextThenReject

\* isPromise(returned)
ReturnsPromise(b) == b \in PromiseBehaviours \cup NextThenReject

CallsNextSync(b) ==
    b \in {"next", "nextErr", "nextPass", "nextRoute", "sendNext"} \cup Rerouting \cup NextThenReject
SendsSync(b) == b \in {"send", "sendNext"}

----------------------------------------------------------------------------
(* wrapRequestProcessor *)

\* error handlers run even when no error is in flight
WrapDecisionEager(isErr, err) ==
    IF isErr THEN "invoke" ELSE (IF Truthy(err) THEN "forward" ELSE "invoke")

\* what the wrapper does with the incoming error: run the user function or pass on
WrapDecision(isErr, err) ==
    IF isErr
    THEN (IF Truthy(err) THEN "invoke" ELSE "forward")
    ELSE (IF Truthy(err) THEN "forward" ELSE "invoke")

\* the wrapper drops the error it should pass on
ForwardArgDropped(isErr, err) == NoErr

\* what a wrapper that does not run its handler gives to next
ForwardArg(isErr, err) == IF isErr THEN NoErr ELSE err

\* the rejection value is handed on without a default
RejectionValueRaw(v) == v

\* next(newErr || new Error('Rejected promise'))
RejectionValue(v) == IF Truthy(v) THEN v ELSE RejectedPromise

\* the wrapper also advances the chain when the promise resolves
OnResolveCallsNext == "next"

\* the wrapper attaches only a rejection callback: returned.then(null, ...)
OnResolve == "nothing"

----------------------------------------------------------------------------
(* ProcessorChain.run *)

\* the reduce leaves out every other closure
NextOfSkipping(r, i) ==
    IF i + 1 >= Len(runs[r].subs) THEN runs[r].done ELSE KRun(r, i + 2)

\* the `next` the reduce gives to closure i: the following closure, or done
NextOf(r, i) ==
    IF i >= Len(runs[r].subs) THEN runs[r].done ELSE KRun(r, i + 1)

\* the closure chain.run starts with
FirstClosure(r, subs, done) == IF Len(subs) = 0 THEN done ELSE KRun(r, 1)

\* the catch block calls next() without the exception
CaughtArgLost(e) == NoErr

\* catch(newErr) { return next(newErr); }
CaughtArg(e) == e

\* a closure given the route sentinel calls done() without running its handler
ClosureShortCircuits(err) == err = RouteSentinel

\* `return done()`: the sentinel is not handed on
SentinelDoneArg == NoErr

BumpDone(rs, r, i) ==
    IF i >= Len(rs[r].subs) THEN [rs EXCEPT ![r].doneCalled = @ + 1] ELSE rs

----------------------------------------------------------------------------
(* Response *)

MaxListeners == 2
MaxHeaderOps == 2
MaxSends == 2

HeaderNames == {"Foo", "Link"}
HeaderValues == {"Bar", "Baz"}
NoHeaders == [n \in HeaderNames |-> <<>>]

\* `headers` maps a header name to its list of values, <<>> for a name that is not
\* in the map; `before` and `after` are the listeners in the order they were added
InitResp ==
    [headersSent |-> FALSE, statusCode |-> 200, statusMessage |-> "OK", body |-> "",
     hasCT |-> FALSE, headers |-> NoHeaders, before |-> <<>>, after |-> <<>>,
     isALB |-> FALSE]

\* the table of status-codes.ts, "" where it has no entry
StatusCodes(code) ==
    CASE code = 200 -> "OK"
      [] code = 404 -> "Not Found"
      [] code = 500 -> "Internal Server Error"
      [] OTHER -> ""

\* Response.status(code)
Status(rp, code) ==
    [rp EXCEPT !.statusCode = code,
               !.statusMessage = IF StatusCodes(code) # "" THEN StatusCodes(code) ELSE ToString(code)]

\* outcome of a call on the response: the response after it, and what it threw
Ok(rp) == [rp |-> rp, threw |-> "none"]
Thrown(rp, msg) == [rp |-> rp, threw |-> msg]

\* Response.set(key, value)
Set(rp, key, value) ==
    IF rp.headersSent THEN Thrown(rp, HeadersSentError)
    ELSE Ok([rp EXCEPT !.headers[key] = <<value>>])

\* Response.delete(headerName)
Delete(rp, key) == Ok([rp EXCEPT !.headers[key] = <<>>])

\* Response.append(key, value)
AppendHeaderInFront(rp, key, value) ==
    IF rp.headersSent THEN Thrown(rp, HeadersSentError)
    ELSE Ok([rp EXCEPT !.headers[key] = <<value>> \o @])
AppendHeader(rp, key, value) ==
    IF rp.headersSent THEN Thrown(rp, HeadersSentError)
    ELSE Ok([rp EXCEPT !.headers[key] = Append(@, value)])

\* Response.onBeforeWriteHeaders, Response.onAfterWrite
OnBeforeWriteHeaders(rp, l) == [rp EXCEPT !.before = Append(@, l)]
OnAfterWrite(rp, l) == [rp EXCEPT !.after = Append(@, l)]

\* listeners, as the tests write them: one appends a header, one only looks at
\* headersSent, one sets a header inside try/catch
ListenerBehaviours == {"append", "look", "trySet"}

Listener(rp, l) ==
    CASE l = "append" -> AppendHeader(rp, "Foo", "Baz")
      [] l = "trySet" -> Ok(Set(rp, "Foo", "Bar").rp)
      [] OTHER -> Ok(rp)

\* what a spy sees of the response: a listener when it is called, the Lambda callback
\* in its output, the caller of a method when it returns or throws
REv(e, i, rp, threw) ==
    [e |-> e, i |-> i, sent |-> rp.headersSent, headers |-> rp.headers, threw |-> threw]

\* _.each(listeners, (l) => { l(); }): in order, until one throws
RECURSIVE Each(_, _, _, _, _)
Each(ls, i, rp, kind, evs) ==
    IF i > Len(ls) THEN [rp |-> rp, threw |-> "none", evs |-> evs]
    ELSE LET r == Listener(rp, ls[i])
             seen == Append(evs, REv(kind, i, rp, r.threw))
         IN IF r.threw # "none" THEN [rp |-> r.rp, threw |-> r.threw, evs |-> seen]
            ELSE Each(ls, i + 1, r.rp, kind, seen)

\* { ...this._headers }: the names in the map, each with its list of values
MultiValueHeaders(rp) ==
    [n \in {k \in DOMAIN rp.headers : rp.headers[k] # <<>>} |-> rp.headers[n]]

\* _.reduce(output.multiValueHeaders, (memo, v, k) => { memo[k] = v[v.length - 1] ... })
SingleValuedFirst(mv) == [n \in DOMAIN mv |-> mv[n][1]]
SingleValued(mv) == [n \in DOMAIN mv |-> mv[n][Len(mv[n])]]

\* the output Response.end hands to the Lambda callback
OutputDescribed(rp) ==
    [isBase64Encoded |-> FALSE, statusCode |-> rp.statusCode,
     multiValueHeaders |-> MultiValueHeaders(rp), body |-> rp.body,
     statusDescription |-> ToString(rp.statusCode) \o " " \o rp.statusMessage,
     headers |-> SingleValued(MultiValueHeaders(rp))]
Output(rp) ==
    IF rp.isALB
    THEN [isBase64Encoded |-> FALSE, statusCode |-> rp.statusCode,
          multiValueHeaders |-> MultiValueHeaders(rp), body |-> rp.body,
          statusDescription |-> ToString(rp.statusCode) \o " " \o rp.statusMessage,
          headers |-> SingleValued(MultiValueHeaders(rp))]
    ELSE [isBase64Encoded |-> FALSE, statusCode |-> rp.statusCode,
          multiValueHeaders |-> MultiValueHeaders(rp), body |-> rp.body]

\* the statements of Response.end between the two loops
Write(rp) ==
    [rp |-> [rp EXCEPT !.headersSent = TRUE],
     evs |-> <<[e |-> "callback", i |-> 0, sent |-> rp.headersSent, headers |-> rp.headers,
                threw |-> "none", output |-> Output(rp)]>>]

\* Response.end: before-write listeners, the Lambda callback with the output,
\* headersSent = true, after-write listeners
EndCall(rp) ==
    LET b == Each(rp.before, 1, rp, "before", <<>>)
    IN IF b.threw # "none" THEN [rp |-> b.rp, threw |-> b.threw, evs |-> b.evs, called |-> FALSE]
       ELSE LET w == Write(b.rp)
                a == Each(rp.after, 1, w.rp, "after", b.evs \o w.evs)
            IN [rp |-> a.rp, threw |-> a.threw, evs |-> a.evs, called |-> TRUE]

End(rp) == EndCall(rp).rp

\* Response.send(string): type('text/html') calls set(), which throws once headers are sent
SendThrows(rp) == ~rp.hasCT /\ rp.headersSent
Send(rp) == End([rp EXCEPT !.hasCT = TRUE, !.body = "body"])

\* Response.sendStatus(code): status(code).end()
SendStatus(rp, code) == End(Status(rp, code))

\* handler of last resort of Application.run
LastResortStatus(err) == IF Truthy(err) THEN 500 ELSE 404

----------------------------------------------------------------------------
(* Chains *)

\* `sensitive` is the option the chain's regular expression was compiled with
AllChain(isErr) ==
    [type |-> "all", subs |-> <<isErr>>, method |-> NoMethod, path |-> PRoot, router |-> 0,
     sensitive |-> FALSE]
RouteChain(method, path, subs, caseSensitive) ==
    [type |-> "route", subs |-> subs, method |-> method, path |-> path, router |-> 0,
     sensitive |-> caseSensitive]
\* new SubRouterProcessorChain(path, router): { sensitive: false, strict: false, end: false }
SubChain(path, router) ==
    [type |-> "sub", subs |-> <<>>, method |-> NoMethod, path |-> path, router |-> router,
     sensitive |-> FALSE]

\* every chain takes every request
matchesAnything(chain, req) == TRUE

\* a route chain that does not look at the method
matchesAnyMethod(chain, req) ==
    CASE chain.type = "all" -> TRUE
      [] chain.type = "sub" -> SubTest(chain.path, PathOf(req.url), chain.sensitive)
      [] OTHER -> RouteTest(chain.path, PathOf(req.url), chain.sensitive)

\* IRequestMatchingProcessorChain.matches of the three chain classes
matches(chain, req) ==
    CASE chain.type = "all" -> TRUE
      [] chain.type = "sub" -> SubTest(chain.path, PathOf(req.url), chain.sensitive)
      [] OTHER ->
           /\ (chain.method = NoMethod \/ req.method = chain.method)
           /\ RouteTest(chain.path, PathOf(req.url), chain.sensitive)

\* RouteMatchingProcessorChain._makeParams
ParamIdx(pattern) == {i \in 1 .. Len(pattern) : pattern[i].p = "param"}
makeParamsThrows(pattern, path, sensitive) ==
    /\ RouteTest(pattern, path, sensitive)
    /\ \E i \in ParamIdx(pattern) : DecodeThrows(SegsOf(path)[i])
makeParams(pattern, path, sensitive) ==
    IF RouteTest(pattern, path, sensitive)
    THEN {<<pattern[i].v, Decode(SegsOf(path)[i])>> : i \in ParamIdx(pattern)}
    ELSE {}

\* _makeSubRequest of ProcessorChain (returns req) and of RouteMatchingProcessorChain
makeSubRequestThrows(chain, req) ==
    chain.type = "route" /\ makeParamsThrows(chain.path, PathOf(req.url), chain.sensitive)
makeSubRequest(chain, req) ==
    IF chain.type = "route"
    THEN [req EXCEPT !.params = makeParams(chain.path, PathOf(req.url), chain.sensitive)]
    ELSE req

\* SubRouterProcessorChain.run: the sub-request handed to the mounted router
subRouterRequest(chain, req) ==
    LET baseURL == SubPrefix(chain.path, PathOf(req.url)) IN
    [req EXCEPT !.url = SubSeq(req.url, Len(baseURL) + 1, Len(req.url)),
                !.baseUrl = req.baseUrl \o baseURL,
                !.params = {}]

\* String.prototype.toUpperCase, on the method names of the events
ToUpperCase(m) ==
    CASE m = "get" -> "GET"
      [] m = "PoSt" -> "POST"
      [] OTHER -> m

\* Request constructor for a Lambda event
NewRequest(httpMethod, path) ==
    [httpMethod |-> httpMethod, method |-> ToUpperCase(httpMethod), url |-> path \o <<"?">>,
     baseUrl |-> <<>>, params |-> {}]

\* nothing was assigned to req.url
NoUrl == <<"unassigned">>

\* the assignment stays in the request it was made on
SetUrlLocal(hs, h, url) == [hs EXCEPT ![h].req.url = url]

\* Request `set url` on the request of handle h: the new url is written into
\* the parent request behind the parent's prefix, and so on upwards
RECURSIVE SetUrl(_, _, _)
SetUrl(hs, h, url) ==
    LET old == hs[h].req.url
        here == [hs EXCEPT ![h].req.url = url]
        nx == hs[h].next
    IN
    IF nx.k = "proc"
    THEN LET purl == hs[nx.a].req.url IN
         SetUrl(here, nx.a, SubSeq(purl, 1, Len(purl) - Len(old)) \o url)
    ELSE here

\* the sub-request is detached from the request the dispatch loop holds
AssignUrlDetached(hs, r, url) == hs

\* assigning req.url makes the dispatch loop start over at its first chain
AssignUrlRestarting(hs, r, url) ==
    IF runs[r].h = 0 THEN hs ELSE [SetUrl(hs, runs[r].h, url) EXCEPT ![runs[r].h].index = 1]

\* a handler of run r assigns req.url: for a route chain req is the
\* sub-request made by _makeSubRequest, for a match-all chain the request itself
AssignUrl(hs, r, url) ==
    LET h == runs[r].h IN
    IF h = 0 THEN hs
    ELSE IF processors[hs[h].router][runs[r].ci].type = "all"
    THEN SetUrl(hs, h, url)
    ELSE LET purl == hs[h].req.url IN
         SetUrl(hs, h, SubSeq(purl, 1, Len(purl) - Len(runs[r].req.url)) \o url)

TotalChains == Len(processors[0]) + Len(processors[1])

\* processors taken from the end of the list
ProcessorAtReversed(procs, index) == IF index > Len(procs) THEN 0 ELSE Len(procs) + 1 - index

\* processors[index] in processRequest (1-based here); 0 stands for undefined
ProcessorAt(procs, index) == IF index > Len(procs) THEN 0 ELSE index

----------------------------------------------------------------------------
(* History *)

Ev(e, i, arg, by, b) == [e |-> e, i |-> i, arg |-> arg, by |-> by, b |-> b]

\* the spies record calls only in the unit test of a single chain
Log(evs) == IF phase = "chain" THEN trace \o evs ELSE trace

----------------------------------------------------------------------------
(* Registration: Router.use, Router.mount (get, post, all), addSubRouter  *)

\* the handler lists given to one mount() call: (h), (h, errorHandler)
SubsChoices == { <<FALSE>>, <<FALSE, TRUE>> }

\* the (method, path) pairs given to mount(): get('/cars', ...), all('/:id', ...)
MountSpecs == { <<"GET", PCars>>, <<NoMethod, PId>> }

\* this._processors.push(chain)
Register(r, chain) == [processors EXCEPT ![r] = Append(@, chain)]

use ==
    /\ phase = "setup"
    /\ TotalChains < MaxChains
    /\ \E r \in RouterIds, isErr \in BOOLEAN :
          processors' = Register(r, AllChain(isErr))
    /\ UNCHANGED <<requests, queries, routerOptions, phase, handles, runs, cur, stack, tasks, resp, cbCalls, escaped, hung, trace>>

\* routes are compiled case-insensitive whatever the router's options say
MatcherSensitiveNever(isCaseSensitive) == FALSE

\* pathToRegexp(path, keys, { sensitive: isCaseSensitive })
MatcherSensitive(isCaseSensitive) == isCaseSensitive

mountWith(specs, subsChoices) ==
    /\ phase = "setup"
    /\ TotalChains < MaxChains
    /\ \E r \in RouterIds, ms \in specs, subs \in subsChoices :
          processors' = Register(r, RouteChain(ms[1], ms[2], subs, MatcherSensitive(routerOptions[r])))
    /\ UNCHANGED <<requests, queries, routerOptions, phase, handles, runs, cur, stack, tasks, resp, cbCalls, escaped, hung, trace>>

mount == mountWith(MountSpecs, SubsChoices)

\* the handler lists of the re-routing tests: get(path, h), get(path, h1, h2, h3)
RerouteSubsChoices == { <<FALSE>>, <<FALSE, FALSE, FALSE>> }

mountReroute == mountWith(MountSpecs, RerouteSubsChoices)

\* the mounted router keeps the options it was constructed with
KeptOptions(parent, own) == own

\* router.routerOptions.caseSensitive = this.routerOptions.caseSensitive
InheritedOptions(parent, own) == parent

addSubRouter ==
    /\ phase = "setup"
    /\ TotalChains < MaxChains
    /\ \E r \in RouterIds, router \in RouterIds, path \in {PCars} :
          /\ r < router
          /\ routerOptions' = [routerOptions EXCEPT
                                  ![router] = InheritedOptions(routerOptions[r], routerOptions[router])]
          /\ processors' = Register(r, SubChain(path, router))
    /\ UNCHANGED <<requests, queries, phase, handles, runs, cur, stack, tasks, resp, cbCalls, escaped, hung, trace>>

----------------------------------------------------------------------------
(* Application.run: builds the request and response, then this.handle(undefined, req, resp, last resort) *)

\* Application.setSetting('case sensitive routing', val), enable and disable
setSetting ==
    /\ phase = "setup"
    /\ \E val \in BOOLEAN :
          /\ val # routerOptions[0]
          /\ routerOptions' = [routerOptions EXCEPT ![0] = val]
    /\ UNCHANGED <<requests, queries, processors, phase, handles, runs, cur, stack, tasks, resp, cbCalls, escaped, hung, trace>>

\* event.path values of the case sensitivity tests: '/cars', '/CARS', '/cars/CARS', '/CARS/cars'
CaseEventPaths ==
    { <<"/", "cars">>, <<"/", "CARS">>, <<"/", "cars", "/", "CARS">>, <<"/", "CARS", "/", "cars">> }

\* the cursor is kept by the Router: an invocation goes on where the last
\* invocation of that router stopped
FirstIndexOfRouter(hs, router) ==
    LET earlier == {g \in DOMAIN hs : hs[g].router = router} IN
    IF earlier = {} THEN 1 ELSE hs[CHOOSE g \in earlier : \A g2 \in earlier : g2 <= g].index

\* `let index = 0` in Router.handle: the cursor of a new invocation (1-based here)
FirstIndex(hs, router) == 1

runWith(methods, paths) ==
    \E method \in methods, path \in paths :
        /\ phase = "setup"
        /\ phase' = "run"
        /\ handles' = <<[router |-> 0, index |-> FirstIndex(handles, 0), req |-> NewRequest(method, path), next |-> KLast,
                        ci |-> 0, nextCalled |-> 0]>>
        /\ cur' = Call(KProc(1), NoErr)
        /\ UNCHANGED <<requests, queries, processors, routerOptions, runs, stack, tasks, resp, cbCalls, escaped, hung, trace>>

run == runWith(Methods, EventPaths)

\* event.httpMethod as a client may spell it
CaseEventMethods == {"get", "PoSt"}

runCase == runWith(CaseEventMethods, CaseEventPaths)

----------------------------------------------------------------------------
(* SubRouterProcessorChain.run(err, req, resp, done) of the chain at       *)
(* position `at`: router.handle(err, subRequest, resp, done), or a throw   *)

SubRouterRun(hs, chain, err, req, doneK, at) ==
    IF ~SubTest(chain.path, PathOf(req.url), chain.sensitive)
    THEN /\ handles' = hs
         /\ cur' = Throw(SubRouterMismatch)
    ELSE /\ handles' = Append(hs,
                [router |-> chain.router, index |-> FirstIndex(hs, chain.router),
                 req |-> subRouterRequest(chain, req), next |-> doneK,
                 ci |-> at, nextCalled |-> 0])
         /\ cur' = Call(KProc(Len(hs) + 1), err)

\* the paths of the requests a sub-router chain is run with on its own:
\* '/cars', '/cars/', '/cars/x', '/x'
SubRunPaths == { <<"/", "cars">>, <<"/", "cars", "/">>, <<"/", "cars", "/", "x">>, <<"/", "x">> }

\* chain.run('nothing', req, resp, done) on a sub-router chain, outside any dispatch loop
runSubRouterChain ==
    /\ phase = "setup"
    /\ \E r \in RouterIds, at \in 1 .. MaxChains, err \in {NoErr, "E0"},
          method \in Methods, path \in SubRunPaths :
          /\ at <= Len(processors[r])
          /\ processors[r][at].type = "sub"
          /\ SubRouterRun(handles, processors[r][at], err, NewRequest(method, path), KSpy, at)
    /\ phase' = "chain"
    /\ UNCHANGED <<requests, queries, processors, routerOptions, runs, stack, tasks, resp, cbCalls, escaped, hung, trace>>

----------------------------------------------------------------------------
(* Router.handle: one call of processRequest of handle invocation h *)

processRequest ==
    /\ cur.op = "call"
    /\ cur.k.k = "proc"
    /\ LET h == cur.k.a
           err == cur.arg
           hd == handles[h]
           procs == processors[hd.router]
           at == ProcessorAt(procs, hd.index)
           advanced == [handles EXCEPT ![h].index = @ + 1]
       IN
       IF at = 0
       THEN \* all processors were looked at: next(err)
            /\ handles' = [advanced EXCEPT ![h].nextCalled = @ + 1]
            /\ cur' = Call(hd.next, err)
            /\ UNCHANGED <<runs, stack>>
       ELSE LET processor == procs[at] IN
            IF ~matches(processor, hd.req)
            THEN /\ handles' = advanced
                 /\ cur' = Call(KProc(h), err)
                 /\ UNCHANGED <<runs, stack>>
            ELSE IF processor.type = "sub"
            THEN /\ SubRouterRun(advanced, processor, err, hd.req, KProc(h), at)
                 /\ UNCHANGED <<runs, stack>>
            ELSE \* ProcessorChain.run
                 IF makeSubRequestThrows(processor, hd.req)
                 THEN /\ handles' = advanced
                      /\ cur' = Throw(URIError)
                      /\ UNCHANGED <<runs, stack>>
                 ELSE LET r == Len(runs) + 1 IN
                      /\ handles' = advanced
                      /\ runs' = Append(runs,
                             [h |-> h, ci |-> at, subs |-> processor.subs,
                              req |-> makeSubRequest(processor, hd.req), done |-> KProc(h),
                              invoked |-> 0, doneCalled |-> IF Len(processor.subs) = 0 THEN 1 ELSE 0,
                              assigned |-> NoUrl])
                      /\ cur' = Call(FirstClosure(r, processor.subs, KProc(h)), err)
                      /\ UNCHANGED stack
    /\ UNCHANGED <<requests, queries, processors, routerOptions, phase, tasks, resp, cbCalls, escaped, hung, trace>>

----------------------------------------------------------------------------
(* ProcessorChain.run: closure i of run r, the wrapper it calls inside its *)
(* try block, and the user function the wrapper calls                      *)

\* the handlers a specification registers: the behaviours of its alphabet
HandlersOf(alphabet, isErr) ==
    CASE alphabet = "reroute" -> RerouteBehaviours(isErr)
      [] alphabet = "sub" -> SubBehaviours(isErr)
      [] alphabet = "case" -> CaseBehaviours(isErr)
      [] alphabet = "async" -> AsyncBehaviours(isErr)
      [] alphabet = "resume" -> ResumeBehaviours(isErr)
      [] alphabet = "reuse" -> ReuseBehaviours(isErr)
      [] OTHER -> Behaviours(isErr)

closureWith(alphabet) ==
    /\ cur.op = "call"
    /\ cur.k.k = "run"
    /\ LET r == cur.k.a
           i == cur.k.b
           err == cur.arg
           isErr == runs[r].subs[i]
           frame == [t |-> "try", r |-> r, i |-> i]
       IN
       IF ClosureShortCircuits(err)
       THEN \* if (err === 'route') return done()
            /\ cur' = Call(runs[r].done, SentinelDoneArg)
            /\ runs' = [runs EXCEPT ![r].doneCalled = @ + 1]
            /\ trace' = Log(<<Ev("route", i, err, "closure", "")>>)
            /\ UNCHANGED <<stack, tasks, resp, cbCalls, hung, handles>>
       ELSE IF WrapDecision(isErr, err) = "forward"
       THEN \* the wrapper calls next without running the user function
            /\ stack' = Append(stack, frame)
            /\ cur' = Call(NextOf(r, i), ForwardArg(isErr, err))
            /\ runs' = BumpDone(runs, r, i)
            /\ trace' = Log(<<Ev("wrap", i, err, "", ""),
                              Ev("next", i, ForwardArg(isErr, err), "wrapper", "")>>)
            /\ UNCHANGED <<tasks, resp, cbCalls, hung, handles>>
       ELSE \E b \in HandlersOf(alphabet, isErr) :
            LET invoked == IF b \in Rerouting
                           THEN [runs EXCEPT ![r].invoked = @ + 1,
                                             ![r].req.url = UrlAssigned(b),
                                             ![r].assigned = UrlAssigned(b)]
                           ELSE [runs EXCEPT ![r].invoked = @ + 1]
                evs == <<Ev("wrap", i, err, "", ""), Ev("invoke", i, err, "", b)>>
            IN
            /\ stack' = Append(stack, frame)
            /\ hung' = (hung \/ b \in Hanging)
            /\ handles' = IF b \in Rerouting THEN AssignUrl(handles, r, UrlAssigned(b)) ELSE handles
            /\ IF SendsSync(b) /\ SendThrows(resp)
               THEN \* resp.send throws inside the handler
                    /\ cur' = Throw(HeadersSentError)
                    /\ runs' = invoked
                    /\ trace' = Log(evs)
                    /\ UNCHANGED <<tasks, resp, cbCalls>>
               ELSE /\ resp' = IF SendsSync(b) THEN Send(resp) ELSE resp
                    /\ cbCalls' = IF SendsSync(b) THEN Append(cbCalls, resp.statusCode) ELSE cbCalls
                    /\ tasks' = IF ReturnsPromise(b)
                                THEN tasks \cup {[r |-> r, i |-> i, b |-> b]} ELSE tasks
                    /\ IF CallsNextSync(b)
                       THEN /\ cur' = Call(NextOf(r, i), NextArg(b, isErr, err))
                            /\ runs' = BumpDone(invoked, r, i)
                            /\ trace' = Log(evs \o <<Ev("next", i, NextArg(b, isErr, err), "handler", b)>>)
                       ELSE /\ cur' = IF b = "throw" THEN Throw(NewErr(isErr)) ELSE Ret
                            /\ runs' = invoked
                            /\ trace' = Log(evs)
    /\ UNCHANGED <<requests, queries, processors, routerOptions, phase, escaped>>

closure == closureWith("all")

closureReroute == closureWith("reroute")

closureSub == closureWith("sub")

closureCase == closureWith("case")

closureAsync == closureWith("async")

closureResume == closureWith("resume")

closureReuse == closureWith("reuse")

\* catch(newErr) { return next(newErr); } and the rejection callback of a handler's promise
catch ==
    /\ cur.op = "throw"
    /\ stack # <<>>
    /\ LET top == stack[Len(stack)]
           arg == IF top.t = "async" THEN RejectionValue(cur.arg) ELSE CaughtArg(cur.arg)
       IN
       /\ stack' = SubSeq(stack, 1, Len(stack) - 1)
       /\ cur' = Call(NextOf(top.r, top.i), arg)
       /\ runs' = BumpDone(runs, top.r, top.i)
       /\ trace' = Log(<<Ev("next", top.i, arg, "wrapper", "")>>)
    /\ UNCHANGED <<requests, queries, processors, routerOptions, phase, handles, tasks, resp, cbCalls, escaped, hung>>

\* an exception no try block encloses leaves Application.run (or the event-loop turn)
escape ==
    /\ cur.op = "throw"
    /\ stack = <<>>
    /\ escaped' = escaped \cup {cur.arg}
    /\ cur' = Idle
    /\ UNCHANGED <<requests, queries, processors, routerOptions, phase, handles, runs, stack, tasks, resp, cbCalls, hung, trace>>

\* the synchronous call chain returns to the event loop
return ==
    /\ cur.op = "ret"
    /\ cur' = Idle
    /\ stack' = <<>>
    /\ UNCHANGED <<requests, queries, processors, routerOptions, phase, handles, runs, tasks, resp, cbCalls, escaped, hung, trace>>

\* a later event-loop turn: the promise a handler returned goes on and settles
settle ==
    /\ cur.op = "idle"
    /\ \E t \in tasks :
        LET isErr == runs[t.r].subs[t.i]
            frame == [t |-> "async", r |-> t.r, i |-> t.i]
        IN
        /\ tasks' = tasks \ {t}
        /\ CASE t.b = "pNext" ->
                  \* the handler calls next() after an await, then its promise resolves
                  /\ stack' = <<frame>>
                  /\ cur' = Call(NextOf(t.r, t.i), NoErr)
                  /\ runs' = BumpDone(runs, t.r, t.i)
                  /\ trace' = Log(<<Ev("next", t.i, NoErr, "handler", t.b)>>)
                  /\ UNCHANGED <<resp, cbCalls>>
             [] t.b = "pSend" ->
                  /\ stack' = <<frame>>
                  /\ IF SendThrows(resp)
                     THEN /\ cur' = Throw(HeadersSentError)
                          /\ UNCHANGED <<resp, cbCalls>>
                     ELSE /\ cur' = Ret
                          /\ resp' = Send(resp)
                          /\ cbCalls' = Append(cbCalls, resp.statusCode)
                  /\ UNCHANGED <<runs, trace>>
             [] t.b \in {"pReject", "pRejectEmpty"} \cup NextThenReject ->
                  LET v == IF t.b = "pRejectEmpty" THEN NoErr ELSE NewErr(isErr) IN
                  /\ stack' = <<>>
                  /\ cur' = Call(NextOf(t.r, t.i), RejectionValue(v))
                  /\ runs' = BumpDone(runs, t.r, t.i)
                  /\ trace' = Log(<<Ev("next", t.i, RejectionValue(v), "wrapper", t.b)>>)
                  /\ UNCHANGED <<resp, cbCalls>>
             [] OTHER ->
                  \* the promise resolves
                  /\ stack' = <<>>
                  /\ IF OnResolve = "next"
                     THEN /\ cur' = Call(NextOf(t.r, t.i), NoErr)
                          /\ runs' = BumpDone(runs, t.r, t.i)
                          /\ trace' = Log(<<Ev("next", t.i, NoErr, "wrapper", t.b)>>)
                     ELSE UNCHANGED <<cur, runs, trace>>
                  /\ UNCHANGED <<resp, cbCalls>>
    /\ UNCHANGED <<requests, queries, processors, routerOptions, phase, handles, escaped, hung>>

\* the handler of last resort: resp.sendStatus(err ? 500 : 404)
lastResort ==
    /\ cur.op = "call"
    /\ cur.k.k = "last"
    /\ resp' = SendStatus(resp, LastResortStatus(cur.arg))
    /\ cbCalls' = Append(cbCalls, LastResortStatus(cur.arg))
    /\ cur' = Ret
    /\ UNCHANGED <<requests, queries, processors, routerOptions, phase, handles, runs, stack, tasks, escaped, hung, trace>>

\* the `done` spy of the unit test
done ==
    /\ cur.op = "call"
    /\ cur.k.k = "spy"
    /\ trace' = Log(<<Ev("done", 0, cur.arg, "", "")>>)
    /\ cur' = Ret
    /\ UNCHANGED <<requests, queries, processors, routerOptions, phase, handles, runs, stack, tasks, resp, cbCalls, escaped, hung>>

----------------------------------------------------------------------------
(* Specifications *)

Init ==
    /\ processors = [r \in RouterIds |-> <<>>]
    /\ routerOptions = [r \in RouterIds |-> FALSE]
    /\ phase = "setup"
    /\ handles = <<>>
    /\ runs = <<>>
    /\ cur = Idle
    /\ stack = <<>>
    /\ tasks = {}
    /\ resp = InitResp
    /\ cbCalls = <<>>
    /\ escaped = {}
    /\ hung = FALSE
    /\ trace = <<>>
    /\ requests = <<>>
    /\ queries = <<>>

Next ==
    \/ use
    \/ mount
    \/ addSubRouter
    \/ run
    \/ processRequest
    \/ closure
    \/ catch
    \/ escape
    \/ return
    \/ settle
    \/ lastResort

Spec == Init /\ [][Next]_vars

\* the Lambda runtime calls run; the JavaScript event loop runs every turn to its end
FairSpec == Spec /\ WF_vars(run) /\ WF_vars(processRequest \/ closure \/ catch \/ escape \/ return \/ settle \/ lastResort)

\* new ProcessorChain(wrapRequestProcessors(procs)).run(originalErr, req, resp, done)
ChainSubs == UNION {[1 .. n -> BOOLEAN] : n \in 0 .. MaxChainLen}

InitChain ==
    \E subs \in ChainSubs, originalErr \in {NoErr, "E0", RouteSentinel} :
        /\ processors = [r \in RouterIds |-> <<>>]
        /\ routerOptions = [r \in RouterIds |-> FALSE]
        /\ phase = "chain"
        /\ handles = <<>>
        /\ runs = <<[h |-> 0, ci |-> 0, subs |-> subs, req |-> NewRequest("GET", <<"/", "cars">>),
                     done |-> KSpy, invoked |-> 0, doneCalled |-> IF Len(subs) = 0 THEN 1 ELSE 0,
                     assigned |-> NoUrl]>>
        /\ cur = Call(FirstClosure(1, subs, KSpy), originalErr)
        /\ stack = <<>>
        /\ tasks = {}
        /\ resp = InitResp
        /\ cbCalls = <<>>
        /\ escaped = {}
        /\ hung = FALSE
        /\ trace = <<>>
        /\ requests = <<>>
        /\ queries = <<>>

NextChain ==
    \/ closure
    \/ catch
    \/ return
    \/ settle
    \/ done

SpecChain == InitChain /\ [][NextChain]_vars

\* the application of the internal re-routing tests
NextReroute ==
    \/ use
    \/ mountReroute
    \/ addSubRouter
    \/ run
    \/ processRequest
    \/ closureReroute
    \/ escape
    \/ return
    \/ lastResort

SpecReroute == Init /\ [][NextReroute]_vars

\* the application, and sub-router chains run on their own
NextSub ==
    \/ use
    \/ mount
    \/ addSubRouter
    \/ run
    \/ runSubRouterChain
    \/ processRequest
    \/ closureSub
    \/ catch
    \/ escape
    \/ return
    \/ lastResort
    \/ done

SpecSub == Init /\ [][NextSub]_vars

\* new Application() and new Router({ caseSensitive }) of the case sensitivity tests
InitCase ==
    /\ processors = [r \in RouterIds |-> <<>>]
    /\ routerOptions \in {o \in [RouterIds -> BOOLEAN] : o[0] = FALSE}
    /\ phase = "setup"
    /\ handles = <<>>
    /\ runs = <<>>
    /\ cur = Idle
    /\ stack = <<>>
    /\ tasks = {}
    /\ resp = InitResp
    /\ cbCalls = <<>>
    /\ escaped = {}
    /\ hung = FALSE
    /\ trace = <<>>
    /\ requests = <<>>
    /\ queries = <<>>

NextCase ==
    \/ setSetting
    \/ mount
    \/ addSubRouter
    \/ runCase
    \/ processRequest
    \/ closureCase
    \/ return
    \/ lastResort

SpecCase == InitCase /\ [][NextCase]_vars

----------------------------------------------------------------------------
(* The Response alone, driven through its public methods as tests/Response.test.ts
   drives it: listeners are added, headers changed and the response sent, in
   any order *)

MaxOutputOps == 2

\* "response": one header and the listeners; "output": two headers, two values and
\* three status codes, for a gateway or a load-balancer event, without listeners
ResponsePhases == {"response", "output"}
KeysOf(ph) == IF ph = "output" THEN HeaderNames ELSE {"Foo"}
SetValuesOf(ph) == IF ph = "output" THEN HeaderValues ELSE {"Bar"}
AppendValuesOf(ph) == IF ph = "output" THEN HeaderValues ELSE {"Baz"}
CodesOf(ph) == IF ph = "output" THEN {200, 404, 999} ELSE {200}
MaxOpsOf(ph) == IF ph = "output" THEN MaxOutputOps ELSE MaxHeaderOps

Calls(es) == Cardinality({q \in DOMAIN trace : trace[q].e \in es})

HeaderOps == {"set", "append", "delete"}

Untouched == <<processors, routerOptions, phase, handles, runs, cur, stack, tasks, escaped, hung, requests, queries>>

onBeforeWriteHeaders ==
    /\ phase = "response"
    /\ Len(resp.before) < MaxListeners
    /\ \E l \in ListenerBehaviours : resp' = OnBeforeWriteHeaders(resp, l)
    /\ UNCHANGED <<Untouched, cbCalls, trace>>

onAfterWrite ==
    /\ phase = "response"
    /\ Len(resp.after) < MaxListeners
    /\ \E l \in ListenerBehaviours : resp' = OnAfterWrite(resp, l)
    /\ UNCHANGED <<Untouched, cbCalls, trace>>

\* a header method called from outside, its outcome seen by the caller
HeaderCall(op, key, value, r) ==
    /\ phase \in ResponsePhases
    /\ Calls(HeaderOps) < MaxOpsOf(phase)
    /\ resp' = r.rp
    /\ trace' = Append(trace, [e |-> op, i |-> 0, sent |-> resp.headersSent, headers |-> resp.headers,
                               threw |-> r.threw, key |-> key, value |-> value])
    /\ UNCHANGED <<Untouched, cbCalls>>

set ==
    \E key \in KeysOf(phase), value \in SetValuesOf(phase) :
        HeaderCall("set", key, value, Set(resp, key, value))

append ==
    \E key \in KeysOf(phase), value \in AppendValuesOf(phase) :
        HeaderCall("append", key, value, AppendHeader(resp, key, value))

delete == \E key \in KeysOf(phase) : HeaderCall("delete", key, "", Delete(resp, key))

\* Response.sendStatus(code): status(code).end()
sendStatus ==
    /\ phase \in ResponsePhases
    /\ Calls({"end"}) < MaxSends
    /\ \E code \in CodesOf(phase) :
          LET r == EndCall(Status(resp, code))
          IN /\ resp' = r.rp
             /\ trace' = (trace \o r.evs) \o <<REv("end", 0, resp, r.threw)>>
             /\ cbCalls' = IF r.called THEN Append(cbCalls, code) ELSE cbCalls
    /\ UNCHANGED Untouched

InitResponse ==
    /\ processors = [r \in RouterIds |-> <<>>]
    /\ routerOptions = [r \in RouterIds |-> FALSE]
    /\ phase = "response"
    /\ handles = <<>>
    /\ runs = <<>>
    /\ cur = Idle
    /\ stack = <<>>
    /\ tasks = {}
    /\ resp = InitResp
    /\ cbCalls = <<>>
    /\ escaped = {}
    /\ hung = FALSE
    /\ trace = <<>>
    /\ requests = <<>>
    /\ queries = <<>>

NextResponse ==
    \/ onBeforeWriteHeaders
    \/ onAfterWrite
    \/ set
    \/ append
    \/ delete
    \/ sendStatus

SpecResponse == InitResponse /\ [][NextResponse]_vars

\* the response of a request made from a gateway event or from a load-balancer event
InitOutput ==
    /\ processors = [r \in RouterIds |-> <<>>]
    /\ routerOptions = [r \in RouterIds |-> FALSE]
    /\ phase = "output"
    /\ handles = <<>>
    /\ runs = <<>>
    /\ cur = Idle
    /\ stack = <<>>
    /\ tasks = {}
    /\ resp \in {[InitResp EXCEPT !.isALB = alb] : alb \in BOOLEAN}
    /\ cbCalls = <<>>
    /\ escaped = {}
    /\ hung = FALSE
    /\ trace = <<>>
    /\ requests = <<>>
    /\ queries = <<>>

NextOutput ==
    \/ set
    \/ append
    \/ delete
    \/ sendStatus

SpecOutput == InitOutput /\ [][NextOutput]_vars

----------------------------------------------------------------------------
(* The Request alone, driven through its public members as the Request tests
   drive it: sub-requests are made of any request, and url, body and the
   values of query are assigned on any of them, in any order *)

MaxRequests == 3
MaxRequestOps == 2

\* the event of the tests: path '/a/b' with the query string 'q=1'
EventPath == <<"/", "a", "/", "b">>
EventRawQuery == <<"q=1">>
EventQuery == {<<"q", "1">>}
EventBody == "body of the event"

\* new Request(app, event, context)
RequestOfEvent(path, raw, body) ==
    [parent |-> 0, url |-> path \o <<"?">> \o raw, path |-> PathOf(path \o <<"?">> \o raw),
     baseUrl |-> <<>>, originalUrl |-> path \o <<"?">> \o raw, params |-> {},
     query |-> 1, body |-> body]

\* new Request(app, parent, context, baseURL, params), by parent.makeSubRequest
SubRequestOfCurrentUrl(rs, p, baseURL, params) ==
    LET url == SubSeq(rs[p].url, Len(baseURL) + 1, Len(rs[p].url))
    IN [parent |-> p, url |-> url, path |-> PathOf(url),
        baseUrl |-> rs[p].baseUrl \o baseURL, originalUrl |-> rs[p].url,
        params |-> params, query |-> rs[p].query, body |-> EventBody]
SubRequest(rs, p, baseURL, params) ==
    LET url == SubSeq(rs[p].url, Len(baseURL) + 1, Len(rs[p].url))
    IN [parent |-> p, url |-> url, path |-> PathOf(url),
        baseUrl |-> rs[p].baseUrl \o baseURL, originalUrl |-> rs[p].originalUrl,
        params |-> params, query |-> rs[p].query, body |-> EventBody]

\* `set url`: the parent's setter is called first with the parent's url up to
\* where this request's url began, followed by the new url
\* a setter that parses the query string of the new url into a new object
RECURSIVE SetRequestUrlParsingQuery(_, _, _)
SetRequestUrlParsingQuery(rs, r, url) ==
    LET p == rs[r].parent
        above == IF p = 0 THEN rs
                 ELSE SetRequestUrlParsingQuery(rs, p,
                          SubSeq(rs[p].url, 1, Len(rs[p].url) - Len(rs[r].url)) \o url)
    IN [above EXCEPT ![r].url = url, ![r].path = PathOf(url), ![r].query = r]
RECURSIVE SetRequestUrlKeepingPath(_, _, _)
SetRequestUrlKeepingPath(rs, r, url) ==
    LET p == rs[r].parent
        above == IF p = 0 THEN rs
                 ELSE SetRequestUrlKeepingPath(rs, p,
                          SubSeq(rs[p].url, 1, Len(rs[p].url) - Len(rs[r].url)) \o url)
    IN [above EXCEPT ![r].url = url]
RECURSIVE SetRequestUrl(_, _, _)
SetRequestUrl(rs, r, url) ==
    LET p == rs[r].parent
        above == IF p = 0 THEN rs
                 ELSE SetRequestUrl(rs, p,
                          SubSeq(rs[p].url, 1, Len(rs[p].url) - Len(rs[r].url)) \o url)
    IN [above EXCEPT ![r].url = url, ![r].path = PathOf(url)]

\* the mount paths a sub-router chain can cut from the path of a request: '',
\* or the first segment
BaseURLs(path) == {<<>>} \cup (IF Len(path) >= 2 THEN {SubSeq(path, 1, 2)} ELSE {})

\* the urls assigned: '/x', '/x/y?q=2', ''
AssignedUrls == { <<"/", "x">>, <<"/", "x", "/", "y", "?", "q=2">>, <<>> }

\* what a caller of the Request saw
QEv(e, r, threw) == [e |-> e, r |-> r, threw |-> threw]

RequestOp ==
    /\ phase = "request"
    /\ Len(trace) < MaxRequestOps

UntouchedByRequest == <<processors, routerOptions, phase, handles, runs, cur, stack, tasks, resp, cbCalls, escaped, hung>>

\* req.makeSubRequest(baseURL), as SubRouterProcessorChain.run calls it
makeSubRequestOfMount ==
    /\ phase = "request"
    /\ Len(requests) < MaxRequests
    /\ \E p \in DOMAIN requests :
          \E baseURL \in BaseURLs(requests[p].path) :
              requests' = Append(requests, SubRequest(requests, p, baseURL, {}))
    /\ UNCHANGED <<UntouchedByRequest, trace, queries>>

\* req.makeSubRequest('', params), as RouteMatchingProcessorChain._makeSubRequest calls it
makeSubRequestOfRoute ==
    /\ phase = "request"
    /\ Len(requests) < MaxRequests
    /\ \E p \in DOMAIN requests, pattern \in {PId} :
          /\ RouteTest(pattern, requests[p].path, FALSE)
          /\ ~makeParamsThrows(pattern, requests[p].path, FALSE)
          /\ requests' = Append(requests,
                 SubRequest(requests, p, <<>>, makeParams(pattern, requests[p].path, FALSE)))
    /\ UNCHANGED <<UntouchedByRequest, trace, queries>>

\* req.url = url
setUrl ==
    /\ RequestOp
    /\ \E r \in DOMAIN requests, url \in AssignedUrls :
          /\ requests' = SetRequestUrl(requests, r, url)
          /\ trace' = Append(trace, QEv("url", r, "none"))
    /\ UNCHANGED <<UntouchedByRequest, queries>>

\* req.body = value
setBody ==
    /\ RequestOp
    /\ \E r \in DOMAIN requests :
          /\ requests' = [requests EXCEPT ![r].body = "body a handler stored"]
          /\ trace' = Append(trace, QEv("body", r, "none"))
    /\ UNCHANGED <<UntouchedByRequest, queries>>

\* req.query.user = value: the object req.query refers to is changed in place
setQueryValue ==
    /\ RequestOp
    /\ \E r \in DOMAIN requests :
          /\ queries' = [queries EXCEPT ![requests[r].query] = @ \cup {<<"user", "stored">>}]
          /\ trace' = Append(trace, QEv("query", r, "none"))
    /\ UNCHANGED <<UntouchedByRequest, requests>>

\* Object.freeze(params) in the constructor
ParamsAssignable(rq, key, value) == Ok([rq EXCEPT !.params = @ \cup {<<key, value>>}])
ParamsFrozen(rq, key, value) == Thrown(rq, "TypeError")

\* req.params.bar = 'x'
setParam ==
    /\ RequestOp
    /\ \E r \in DOMAIN requests :
          LET o == ParamsFrozen(requests[r], "bar", "x")
          IN /\ requests' = [requests EXCEPT ![r] = o.rp]
             /\ trace' = Append(trace, QEv("params", r, o.threw))
    /\ UNCHANGED <<UntouchedByRequest, queries>>

InitRequest ==
    /\ processors = [r \in RouterIds |-> <<>>]
    /\ routerOptions = [r \in RouterIds |-> FALSE]
    /\ phase = "request"
    /\ handles = <<>>
    /\ runs = <<>>
    /\ cur = Idle
    /\ stack = <<>>
    /\ tasks = {}
    /\ resp = InitResp
    /\ cbCalls = <<>>
    /\ escaped = {}
    /\ hung = FALSE
    /\ trace = <<>>
    /\ requests = <<RequestOfEvent(EventPath, EventRawQuery, EventBody)>>
    /\ queries = [i \in 1..MaxRequests |-> IF i = 1 THEN EventQuery ELSE {}]

NextRequest ==
    \/ makeSubRequestOfMount
    \/ makeSubRequestOfRoute
    \/ setUrl
    \/ setBody
    \/ setQueryValue
    \/ setParam

SpecRequest == InitRequest /\ [][NextRequest]_vars

----------------------------------------------------------------------------
(* Router.mount called directly, with the method spelled by the caller *)

\* router.mount('get', '/cars', h), router.mount('GET', '/cars', h), router.mount('PoSt', '/cars', h)
SpelledMountSpecs == { <<"get", PCars>>, <<"GET", PCars>>, <<"PoSt", PCars>> }

mountSpelled == mountWith(SpelledMountSpecs, {<<FALSE>>})

NextMethod ==
    \/ mountSpelled
    \/ run
    \/ processRequest
    \/ closureCase
    \/ return
    \/ lastResort

SpecMethod == Init /\ [][NextMethod]_vars

----------------------------------------------------------------------------
(* Router.route and the Route builder: router 1 is the Router the Route    *)
(* constructs and mounts on the application at the route's path            *)

\* the path of app.route('/cars')
RoutePaths == {PCars}

\* the methods of the appenders used: route.get, route.post, route.all
RouteMethods == {"GET", "POST", NoMethod}

\* the appenders mount on the path of the route once more
RouteAppenderPathOfRoute == PCars

\* this._router.get('/', ...handlers): the path every appender of Route mounts on
RouteAppenderPath == PRoot

\* a Route was built on the application
RouteBuilt == \E q \in DOMAIN processors[0] : processors[0][q].type = "sub"

\* new Route(path, parentRouter): this._router = new Router(parentRouter.routerOptions);
\* parentRouter.addSubRouter(path, this._router)
NewRoute(path) ==
    /\ routerOptions' = [routerOptions EXCEPT ![1] = InheritedOptions(routerOptions[0], routerOptions[0])]
    /\ processors' = Register(0, SubChain(path, 1))

\* app.route(path) returns new Route(path, this)
route ==
    /\ phase = "setup"
    /\ TotalChains < MaxChains
    /\ ~RouteBuilt /\ processors[1] = <<>>
    /\ \E path \in RoutePaths : NewRoute(path)
    /\ UNCHANGED <<requests, queries, phase, handles, runs, cur, stack, tasks, resp, cbCalls, escaped, hung, trace>>

\* route.get(...handlers), route.post(...handlers), route.all(...handlers): each returns this
routeAppend ==
    /\ phase = "setup"
    /\ TotalChains < MaxChains
    /\ RouteBuilt
    /\ \E method \in RouteMethods, subs \in SubsChoices :
          processors' = Register(1, RouteChain(method, RouteAppenderPath, subs, MatcherSensitive(routerOptions[1])))
    /\ UNCHANGED <<requests, queries, routerOptions, phase, handles, runs, cur, stack, tasks, resp, cbCalls, escaped, hung, trace>>

\* requests for '/cars', '/cars/', '/cars/x' and '/x'
runRoute == runWith(Methods, SubRunPaths)

NextRoute ==
    \/ route
    \/ routeAppend
    \/ runRoute
    \/ processRequest
    \/ closureCase
    \/ return
    \/ lastResort

SpecRoute == Init /\ [][NextRoute]_vars

----------------------------------------------------------------------------
(* The application and a mounted router with handlers that return promises *)

\* the handler lists given to one mount() call: (h), (h1, h2)
AsyncSubsChoices == { <<FALSE>>, <<FALSE, FALSE>> }

mountAsync == mountWith(MountSpecs, AsyncSubsChoices)

\* requests for '/cars' and '/cars/x'
runCars == runWith(Methods, {<<"/", "cars">>, <<"/", "cars", "/", "x">>})

NextAsync ==
    \/ use
    \/ mountAsync
    \/ addSubRouter
    \/ runCars
    \/ processRequest
    \/ closureAsync
    \/ catch
    \/ return
    \/ settle
    \/ lastResort

SpecAsync == Init /\ [][NextAsync]_vars

----------------------------------------------------------------------------
(* The application with mounted routers whose handlers re-route or fail *)

NextResume ==
    \/ use
    \/ mountReroute
    \/ addSubRouter
    \/ runCars
    \/ processRequest
    \/ closureResume
    \/ return
    \/ lastResort

SpecResume == Init /\ [][NextResume]_vars

----------------------------------------------------------------------------
(* One application run for several events, and one router mounted twice *)

MaxRuns == 2 \* calls of Application.run

\* the invocations of Router.handle made by Application.run
TopLevel == {h \in DOMAIN handles : handles[h].next = KLast}

\* Application.run for the first event: GET '/cars'
runFirst == runWith({"GET"}, {<<"/", "cars">>})

\* Application.run for a further event, while handlers of an earlier one await
runAgain ==
    \E method \in {"GET"}, path \in {<<"/", "cars">>} :
        /\ phase = "run"
        /\ cur = Idle
        /\ Cardinality(TopLevel) < MaxRuns
        /\ handles' = Append(handles,
               [router |-> 0, index |-> FirstIndex(handles, 0), req |-> NewRequest(method, path),
                next |-> KLast, ci |-> 0, nextCalled |-> 0])
        /\ cur' = Call(KProc(Len(handles) + 1), NoErr)
        /\ UNCHANGED <<requests, queries, processors, routerOptions, phase, runs, stack, tasks, resp, cbCalls, escaped, hung, trace>>

NextReuse ==
    \/ use
    \/ addSubRouter
    \/ runFirst
    \/ runAgain
    \/ processRequest
    \/ closureReuse
    \/ return
    \/ settle
    \/ lastResort

SpecReuse == Init /\ [][NextReuse]_vars

----------------------------------------------------------------------------
(* Properties of Application.run (Spec, FairSpec) *)

\* nothing is running and no promise is pending
Quiescent == cur.op = "idle" /\ tasks = {}

Dispatched == phase = "run" /\ Quiescent

\* C1: for every Application.run invocation the Lambda callback is invoked
\* exactly once: never a second time, and never zero times once dispatch
\* has finished (no handler hung, no exception left run)
C1_CallbackExactlyOnce ==
    /\ Len(cbCalls) <= 1
    /\ (Dispatched /\ ~hung /\ escaped = {}) => Len(cbCalls) = 1

\* C2: if every invoked handler sends a response or calls next, run
\* eventually invokes the Lambda callback
C2_EventuallyCallback == <>(hung \/ Len(cbCalls) > 0)

\* C3: when the chain list is exhausted and no response was sent, the
\* handler of last resort sends 500 if a failure is in flight, else 404
C3_LastResortStatus ==
    [][(cur.op = "call" /\ cur.k.k = "last" /\ cbCalls = <<>>)
          => cbCalls' = <<IF IsFailure(cur.arg) THEN 500 ELSE 404>>]_vars

SameHandle(r1, r2) == runs[r1].h = runs[r2].h

\* run r2 belongs to a chain registered after the chain of run r1 (or after
\* the mount through which run r1 was reached) on the same router invocation
LaterChain(r1, r2) ==
    \/ SameHandle(r1, r2) /\ r1 < r2
    \/ /\ handles[runs[r1].h].next = KProc(runs[r2].h)
       /\ handles[runs[r1].h].ci < runs[r2].ci

----------------------------------------------------------------------------
(* Properties of one ProcessorChain.run (SpecChain), read off the spies *)

Subs == runs[1].subs

IsInvoke(p) == trace[p].e = "invoke"
InvokesAfter(p) == {q \in (p + 1) .. Len(trace) : IsInvoke(q)}
DoneEvents == {q \in 1 .. Len(trace) : trace[q].e = "done"}
NextEvents(i) == {q \in 1 .. Len(trace) : trace[q].e = "next" /\ trace[q].i = i}
Least(S) == CHOOSE x \in S : \A y \in S : x <= y

\* the first handler after position i that is (isErr) or is not an error handler; 0 if none
FirstHandlerAfter(i, isErr) ==
    LET S == {j \in (i + 1) .. Len(Subs) : Subs[j] = isErr} IN
    IF S = {} THEN 0 ELSE Least(S)

\* after the invocation recorded at p raised v, the next handler invoked is
\* the first handler of kind toErr behind it, called with v; if there is none,
\* done is called with v, once
HandedOn(p, v, toErr) ==
    LET j == FirstHandlerAfter(trace[p].i, toErr) IN
    /\ InvokesAfter(p) # {} =>
          LET q == Least(InvokesAfter(p)) IN
          j # 0 /\ trace[q].i = j /\ trace[q].arg = v
    /\ (j # 0 /\ Quiescent) => InvokesAfter(p) # {}
    /\ j = 0 => \A q \in DoneEvents : trace[q].arg = v
    /\ (j = 0 /\ Quiescent) => Cardinality(DoneEvents) = 1

CallsNextPlain == {"next", "sendNext", "pNext"}

\* C5: a handler that throws or calls next(err) makes err the error in
\* flight: the exception stays inside the chain, the following non-error
\* handlers are not invoked, the next error handler gets exactly err, and
\* without an error handler done receives err
C5_ThrowSkipsToErrorHandler ==
    /\ cur.op = "throw" => stack # <<>>
    /\ \A p \in 1 .. Len(trace) :
          (IsInvoke(p) /\ trace[p].b \in {"throw", "nextErr"})
             => HandedOn(p, NewErr(Subs[trace[p].i]), TRUE)

C5_Witness ==
    \E p \in 1 .. Len(trace) :
        /\ IsInvoke(p) /\ trace[p].b = "throw" /\ ~Subs[trace[p].i]
        /\ InvokesAfter(p) # {}
        /\ trace[Least(InvokesAfter(p))].i > trace[p].i + 1
        /\ trace[Least(InvokesAfter(p))].arg = "E1"

\* C6: an error handler that got an error and calls next() clears it: the
\* next handler invoked is the first non-error handler behind it, later
\* error handlers are passed over, and done is called with no error
C6_ErrorHandlerClears ==
    \A p \in 1 .. Len(trace) :
        (IsInvoke(p) /\ Subs[trace[p].i] /\ trace[p].b \in CallsNextPlain)
           => /\ HandedOn(p, NoErr, FALSE)
              /\ (Quiescent /\ \A q \in InvokesAfter(p) : trace[q].b \in CallsNextPlain)
                    => \E q \in DoneEvents : DoneEvents = {q} /\ trace[q].arg = NoErr

C6_Witness ==
    \E p \in 1 .. Len(trace) :
        /\ IsInvoke(p) /\ Subs[trace[p].i] /\ trace[p].b = "next"
        /\ InvokesAfter(p) # {}
        /\ ~Subs[trace[Least(InvokesAfter(p))].i]
        /\ \E q \in DoneEvents : trace[q].arg = NoErr

\* the error an error handler with behaviour b hands on
Forwarded(p) == IF trace[p].b = "nextPass" THEN trace[p].arg ELSE NewErr(TRUE)

\* C7: an error handler that forwards its error (or raises a new one) keeps
\* propagation going: the next handler invoked is the next error handler,
\* with the forwarded error, and done receives the last forwarded error
C7_ErrorHandlerForwards ==
    \A p \in 1 .. Len(trace) :
        (IsInvoke(p) /\ Subs[trace[p].i] /\ trace[p].b \in {"nextPass", "nextErr", "throw"})
           => /\ HandedOn(p, Forwarded(p), TRUE)
              /\ (Quiescent /\ \A q \in InvokesAfter(p) : trace[q].b = "nextPass")
                    => \E q \in DoneEvents : DoneEvents = {q} /\ trace[q].arg = Forwarded(p)

C7_Witness ==
    \E p \in 1 .. Len(trace) :
        /\ IsInvoke(p) /\ Subs[trace[p].i] /\ trace[p].b = "nextPass"
        /\ InvokesAfter(p) # {}
        /\ trace[Least(InvokesAfter(p))].arg = trace[p].arg
        /\ trace[Least(InvokesAfter(p))].b = "nextPass"
        /\ \E q \in DoneEvents : trace[q].arg = trace[p].arg

\* the wrapper of handler i was called with err and must not run the handler
MustForward(p) ==
    /\ trace[p].e = "wrap"
    /\ \/ ~Subs[trace[p].i] /\ Truthy(trace[p].arg)
       \/ Subs[trace[p].i] /\ ~Truthy(trace[p].arg)

\* C8: a wrapped non-error handler given an error does not run and calls
\* next once with that error; a wrapped error handler given no error does
\* not run and calls next once with no argument
C8_WrapperForwards ==
    \A p \in 1 .. Len(trace) :
        MustForward(p) =>
            /\ p < Len(trace)
            /\ trace[p + 1].e = "next" /\ trace[p + 1].i = trace[p].i
            /\ trace[p + 1].arg = (IF Subs[trace[p].i] THEN NoErr ELSE trace[p].arg)
            /\ NextEvents(trace[p].i) = {p + 1}
            /\ \A q \in 1 .. Len(trace) : IsInvoke(q) => trace[q].i # trace[p].i

C8_Witness ==
    /\ \E p \in 1 .. Len(trace) : MustForward(p) /\ ~Subs[trace[p].i]
    /\ \E p \in 1 .. Len(trace) : MustForward(p) /\ Subs[trace[p].i]

\* the value next gets when the promise of the invocation at p rejects
Rejection(p) ==
    IF trace[p].b = "pReject" THEN NewErr(Subs[trace[p].i]) ELSE RejectedPromise

\* C9: when the promise a handler returned rejects, next is called with the
\* rejection value (Error('Rejected promise') if there is none) as if the
\* handler had thrown it: non-error handlers are skipped, error handlers run
C9_RejectionIsError ==
    \A p \in 1 .. Len(trace) :
        (IsInvoke(p) /\ trace[p].b \in {"pReject", "pRejectEmpty"})
           => /\ HandedOn(p, Rejection(p), TRUE)
              /\ \A q \in NextEvents(trace[p].i) : trace[q].arg = Rejection(p)
              /\ Quiescent => Cardinality(NextEvents(trace[p].i)) = 1

C9_Witness ==
    \E p \in 1 .. Len(trace) :
        /\ IsInvoke(p) /\ trace[p].b = "pRejectEmpty"
        /\ InvokesAfter(p) # {}
        /\ trace[Least(InvokesAfter(p))].i > trace[p].i + 1
        /\ trace[Least(InvokesAfter(p))].arg = RejectedPromise

\* C10: when the promise a handler returned resolves, the wrapper does not
\* call next: the chain goes on only when the handler itself calls next,
\* then exactly once, and handlers run in registration order
C10_ResolveDoesNotAdvance ==
    /\ \A p \in 1 .. Len(trace) :
          (IsInvoke(p) /\ trace[p].b \in {"pResolve", "pNext", "pSend"})
             => /\ \A q \in NextEvents(trace[p].i) : trace[q].by = "handler"
                /\ Cardinality(NextEvents(trace[p].i)) <= (IF trace[p].b = "pNext" THEN 1 ELSE 0)
                /\ (Quiescent /\ trace[p].b = "pNext") => Cardinality(NextEvents(trace[p].i)) = 1
                /\ (Quiescent /\ trace[p].b # "pNext") => InvokesAfter(p) = {} /\ DoneEvents = {}
    /\ \A p, q \in 1 .. Len(trace) :
          (IsInvoke(p) /\ IsInvoke(q) /\ p < q) => trace[p].i < trace[q].i

C10_Witness ==
    \E p \in 1 .. Len(trace) :
        /\ IsInvoke(p) /\ trace[p].b = "pNext"
        /\ InvokesAfter(p) # {}
        /\ trace[Least(InvokesAfter(p))].i = trace[p].i + 1
        /\ Cardinality(NextEvents(trace[p].i)) = 1
        /\ Quiescent

\* C11: a handler at any position of the chain, the last included, that
\* calls next('route') ends the chain: no later handler is invoked and
\* done is called exactly once with no error argument
C11_RouteSentinelEndsChain ==
    \A p \in 1 .. Len(trace) :
        (IsInvoke(p) /\ trace[p].b = "nextRoute")
           => /\ InvokesAfter(p) = {}
              /\ \A q \in DoneEvents : trace[q].arg = NoErr
              /\ Quiescent => Cardinality(DoneEvents) = 1

----------------------------------------------------------------------------
(* Properties of internal re-routing (SpecReroute) *)

\* the request the dispatch loop would test if its url were `url`
Rerouted(req, url) == [req EXCEPT !.url = url]

\* the last chain run so far belongs to handle h and one of its handlers assigned req.url
ReroutedIn(h) ==
    /\ Len(runs) > 0
    /\ runs[Len(runs)].h = h
    /\ runs[Len(runs)].assigned # NoUrl

\* a handler of run r assigns req.url in this step
Assigns(r) == r <= Len(runs) /\ runs'[r].assigned # runs[r].assigned

\* the part of the url in front of the sub-router's share
MountPrefix(h) ==
    LET ph == handles[h].next.a IN
    SubSeq(handles[h].req.baseUrl, Len(handles[ph].req.baseUrl) + 1, Len(handles[h].req.baseUrl))

\* C12: a handler that assigns req.url and calls next() is followed by the
\* remaining handlers of its chain, in order; only then the dispatch loop
\* goes on from the next cursor position, and it tests every later chain
\* against the new path: chains that run match it, chains passed over do not
C12_RerouteAfterChain ==
    /\ [](\A r \in 1 .. Len(runs) :
            (runs[r].assigned # NoUrl /\ runs[r].doneCalled >= 1)
               => runs[r].invoked = Len(runs[r].subs))
    /\ [][\A r \in 1 .. Len(runs) : Assigns(r) =>
            LET h == runs[r].h
                i == cur.k.b
            IN
            /\ cur' = Call(IF i < Len(runs[r].subs) THEN KRun(r, i + 1) ELSE KProc(h), NoErr)
            /\ handles'[h].index = handles[h].index
            /\ handles'[h].req.url = runs'[r].assigned
            /\ handles[h].next.k = "proc" =>
                  handles'[handles[h].next.a].req.url = MountPrefix(h) \o runs'[r].assigned]_vars
    /\ [][(cur.op = "call" /\ cur.k.k = "proc" /\ ReroutedIn(cur.k.a)) =>
            LET h == cur.k.a
                procs == processors[handles[h].router]
                at == handles[h].index
                req == Rerouted(handles[h].req, runs[Len(runs)].assigned)
            IN
            at <= Len(procs) =>
               /\ (Len(runs') > Len(runs) \/ Len(handles') > Len(handles)) => matches(procs[at], req)
               /\ (Len(runs') = Len(runs) /\ Len(handles') = Len(handles)) => ~matches(procs[at], req)]_vars

\* a chain of three handlers whose first re-routed ran to its end, a chain
\* for the old path was passed over and a chain for the new path ran
C12_Witness ==
    \E r1, r2 \in 1 .. Len(runs) :
        LET procs == processors[handles[runs[r1].h].router] IN
        /\ r2 = r1 + 1 /\ runs[r1].h = runs[r2].h
        /\ runs[r1].assigned # NoUrl /\ runs[r1].invoked = 3
        /\ runs[r2].ci = runs[r1].ci + 2 /\ runs[r2].invoked = 1
        /\ procs[runs[r1].ci + 1] = [procs[runs[r1].ci] EXCEPT !.subs = <<FALSE>>]
        /\ procs[runs[r1].ci].type = "route"

----------------------------------------------------------------------------
(* Properties of the chains under Router.handle (Spec) *)

\* processRequest is about to run a route chain whose path parameter cannot be decoded
RunsUndecodable ==
    /\ cur.op = "call" /\ cur.k.k = "proc"
    /\ LET hd == handles[cur.k.a]
           procs == processors[hd.router]
       IN
       /\ hd.index <= Len(procs)
       /\ procs[hd.index].type = "route"
       /\ matches(procs[hd.index], hd.req)
       /\ \E i \in ParamIdx(procs[hd.index].path) :
             SegsOf(PathOf(hd.req.url))[i] \in Malformed

\* C13: running a route chain whose captured parameter is malformed
\* percent-encoding throws nothing: the chain's completion continuation is
\* called with the decode error and none of its handlers runs
C13_DecodeErrorToDone ==
    [][RunsUndecodable =>
          /\ cur' = Call(KProc(cur.k.a), URIError)
          /\ \A r \in 1 .. Len(runs') : runs'[r].invoked = (IF r <= Len(runs) THEN runs[r].invoked ELSE 0)]_vars

----------------------------------------------------------------------------
(* Properties of SubRouterProcessorChain.run (SpecSub) *)

\* this step runs a sub-router chain on its own, outside a dispatch loop
RunsAlone == phase = "setup" /\ phase' = "chain"

\* the mount pattern of the sub-router chain behind handle record hd
MountPatterns(hd) ==
    {processors[r][hd.ci].path : r \in {q \in RouterIds : hd.ci <= Len(processors[q])}}

\* C14: a sub-router chain run with a request its mount pattern does not
\* match throws at once, calls neither done nor the nested router, and the
\* exception propagates; the dispatch loop of Router.handle never causes this throw
C14_MismatchThrows ==
    /\ [](SubRouterMismatch \in escaped => (handles = <<>> /\ trace = <<>> /\ cbCalls = <<>>))
    /\ [][RunsAlone =>
            \/ cur' = Throw(SubRouterMismatch) /\ handles' = handles /\ trace' = trace
            \/ /\ cur'.op = "call"
               /\ Len(handles') = 1
               /\ \E pat \in MountPatterns(handles'[1]) :
                     SubTest(pat, PathOf(handles'[1].req.baseUrl \o handles'[1].req.url), FALSE)]_vars
    /\ [][(cur'.op = "throw" /\ cur'.arg = SubRouterMismatch /\ cur' # cur) => RunsAlone]_vars

C14_Witness ==
    /\ SubRouterMismatch \in escaped
    /\ phase = "chain"
    /\ cur.op = "idle"

\* the mount prefix a sub-request adds to the baseUrl of the request it comes from
AddedPrefix(base, sub) == SubSeq(sub.baseUrl, Len(base) + 1, Len(sub.baseUrl))

\* prefix is the matched mount prefix of the pattern, without a trailing slash
IsTrimmedPrefix(prefix, pat) ==
    /\ Len(SegsOf(prefix)) = Len(pat)
    /\ \A i \in 1 .. Len(pat) : PartMatches(pat[i], SegsOf(prefix)[i], FALSE)
    /\ prefix # <<>> => prefix[Len(prefix)] # "/"

\* C15: running a sub-router chain makes a sub-request whose baseUrl is the
\* parent's baseUrl plus the matched mount prefix without its trailing
\* slash and whose url is the rest of the parent's url, and calls the nested
\* router's handle once with the same error, response and continuation
C15_SubRequestAndDelegation ==
    [][Len(handles') > Len(handles) =>
          LET n == Len(handles')
              sub == handles'[n].req
          IN
          /\ n = Len(handles) + 1
          /\ resp' = resp
          /\ cur'.op = "call" /\ cur'.k = KProc(n)
          /\ sub.params = {}
          /\ IF RunsAlone
             THEN /\ handles'[n].next = KSpy
                  /\ \E pat \in MountPatterns(handles'[n]) : IsTrimmedPrefix(sub.baseUrl, pat)
                  /\ \E path \in SubRunPaths : sub.baseUrl \o sub.url = path \o <<"?">>
             ELSE IF cur.op = "call" /\ cur.k.k = "proc"
             THEN LET h == cur.k.a
                      req == handles[h].req
                  IN
                  /\ handles'[n].next = KProc(h)
                  /\ cur'.arg = cur.arg
                  /\ SubSeq(sub.baseUrl, 1, Len(req.baseUrl)) = req.baseUrl
                  /\ IsTrimmedPrefix(AddedPrefix(req.baseUrl, sub),
                                     processors[handles[h].router][handles'[n].ci].path)
                  /\ AddedPrefix(req.baseUrl, sub) \o sub.url = req.url
                  /\ sub.method = req.method
             ELSE \* Application.run makes the first request itself
                  n = 1 /\ cur = Idle]_vars

C15_Witness ==
    /\ phase = "chain"
    /\ Len(handles) = 1
    /\ handles[1].req.baseUrl = <<"/", "cars">>
    /\ handles[1].req.url = <<"/", "?">>
    /\ cur.op = "idle"
    /\ \E q \in 1 .. Len(trace) : trace[q].e = "done" /\ trace[q].arg = "E0"

----------------------------------------------------------------------------
(* Properties of case sensitive routing (SpecCase) *)

\* this step registers a chain on router r
Registers(r) == Len(processors'[r]) = Len(processors[r]) + 1
Registered(r) == processors'[r][Len(processors'[r])]

\* router q is mounted on some router
Mounted(q) ==
    \E r \in RouterIds : \E i \in 1 .. Len(processors[r]) :
        processors[r][i].type = "sub" /\ processors[r][i].router = q

\* the literal segments of the pattern are those of the path: letter for
\* letter, or up to the case of the letters
SameLetters(pattern, path) ==
    /\ Len(SegsOf(path)) = Len(pattern)
    /\ \A i \in 1 .. Len(pattern) : pattern[i].p = "lit" => pattern[i].v = SegsOf(path)[i]
SameUpToCase(pattern, path) ==
    /\ Len(SegsOf(path)) = Len(pattern)
    /\ \A i \in 1 .. Len(pattern) :
          pattern[i].p = "lit" => pattern[i].v \in {SegsOf(path)[i], Lower(SegsOf(path)[i])}

\* C16: a route matches with the case sensitivity its router had when the
\* route was registered, and keeps it whatever the setting becomes later
C16_SensitivityFixedAtRegistration ==
    /\ [][\A r \in RouterIds : \A i \in 1 .. Len(processors[r]) :
            processors'[r][i] = processors[r][i]]_vars
    /\ [][\A r \in RouterIds :
            (Registers(r) /\ Registered(r).type = "route")
               => Registered(r).sensitive = routerOptions[r]]_vars
    /\ [](\A q \in 1 .. Len(runs) :
            LET c == processors[handles[runs[q].h].router][runs[q].ci] IN
            c.type = "route" =>
               IF c.sensitive THEN SameLetters(c.path, PathOf(runs[q].req.url))
                              ELSE SameUpToCase(c.path, PathOf(runs[q].req.url)))
    /\ [][(cur.op = "call" /\ cur.k.k = "proc") =>
            LET hd == handles[cur.k.a]
                procs == processors[hd.router]
            IN
            (/\ hd.index <= Len(procs)
             /\ procs[hd.index].type = "route"
             /\ procs[hd.index].method \in {NoMethod, hd.req.method}
             /\ IF procs[hd.index].sensitive THEN SameLetters(procs[hd.index].path, PathOf(hd.req.url))
                                             ELSE SameUpToCase(procs[hd.index].path, PathOf(hd.req.url)))
               => Len(runs') = Len(runs) + 1]_vars

\* '/cars' registered while case-sensitive, the setting disabled, '/cars'
\* registered again: a request for '/CARS' passes over the first and runs the second
C16_Witness ==
    /\ Len(processors[0]) >= 2
    /\ processors[0][1].type = "route" /\ processors[0][1].path = PCars /\ processors[0][1].sensitive
    /\ processors[0][2].type = "route" /\ processors[0][2].path = PCars /\ ~processors[0][2].sensitive
    /\ ~routerOptions[0]
    /\ Len(runs) = 1 /\ runs[1].h = 1 /\ runs[1].ci = 2 /\ runs[1].invoked = 1
    /\ PathOf(handles[1].req.url) = <<"/", "CARS">>

\* C17: the mount path of a sub-router is matched with the parent's case
\* sensitivity at the time of addSubRouter, and mounting a router leaves
\* the case sensitivity of the mounted router, hence of its routes, alone
C17_MountKeepsSubRouterSensitivity ==
    [][\A r \in RouterIds :
          (Registers(r) /\ Registered(r).type = "sub")
             => /\ Registered(r).sensitive = routerOptions[r]
                /\ routerOptions'[Registered(r).router] = routerOptions[Registered(r).router]]_vars

----------------------------------------------------------------------------
(* Properties of the Response (SpecResponse) *)

\* what the step added to the trace
Added == SubSeq(trace', Len(trace) + 1, Len(trace'))

\* C19: once headersSent is true no step changes the header map, and every call
\* of set, append or delete made from then on throws "Can't set headers after
\* they are sent."
C19_NoHeaderChangeAfterSent ==
    [][resp.headersSent =>
          /\ resp'.headers = resp.headers
          /\ \A q \in DOMAIN Added :
                Added[q].e \in HeaderOps => Added[q].threw = HeadersSentError]_vars

\* the step is a call of a method that sends the response
SendStep == Calls({"end"})' = Calls({"end"}) + 1

\* the listeners and the callback of one send, as the spies saw them: every
\* before-write listener in the order added with headersSent false, the callback
\* with the headers as the listeners left them, every after-write listener in
\* the order added with headersSent true
SendInOrder ==
    LET n == Len(resp.before)
        m == Len(resp.after)
        evs == SubSeq(Added, 1, Len(Added) - 1)
    IN /\ Len(evs) = n + 1 + m
       /\ \A i \in 1..n : evs[i].e = "before" /\ evs[i].i = i /\ ~evs[i].sent
       /\ evs[n + 1].e = "callback" /\ ~evs[n + 1].sent
       /\ evs[n + 1].headers = resp'.headers
       /\ \A i \in 1..m :
             /\ evs[n + 1 + i].e = "after"
             /\ evs[n + 1 + i].i = i
             /\ evs[n + 1 + i].sent

\* C20: on every send the before-write listeners run in the order added while
\* headersSent is false, their header changes are in the output handed to the
\* callback, the callback is invoked, then the after-write listeners run in the
\* order added and see headersSent true; headersSent never goes back to false
C20_ListenersAroundCallback ==
    [][/\ resp.headersSent => resp'.headersSent
       /\ SendStep => SendInOrder]_vars

----------------------------------------------------------------------------
(* Properties of the headers and of the output (SpecOutput) *)

\* the calls among the first `upto` events that changed header n
Changed(n, upto, ops) ==
    {q \in 1..upto : trace[q].e \in ops /\ trace[q].key = n /\ trace[q].threw = "none"}

Greatest(S) == CHOOSE q \in S : \A p \in S : p <= q

\* the most recent set or delete of n, 0 when there is none
LastReset(n, upto) == Greatest(Changed(n, upto, {"set", "delete"}) \cup {0})

RECURSIVE AppendedSince(_, _, _)
AppendedSince(n, from, upto) ==
    IF from >= upto THEN <<>>
    ELSE LET q == from + 1
         IN (IF q \in Changed(n, upto, {"append"}) THEN <<trace[q].value>> ELSE <<>>)
            \o AppendedSince(n, q, upto)

\* what the calls made so far say the list of n is
ValuesCalled(n, upto) ==
    LET r == LastReset(n, upto)
    IN (IF r > 0 /\ trace[r].e = "set" THEN <<trace[r].value>> ELSE <<>>)
       \o AppendedSince(n, r, upto)

\* C21: before the send the list stored for a header is the value of the most
\* recent set of that name, if no delete came after it, followed by the values
\* appended since, in call order; the multiValueHeaders of the output has these
\* lists, and no name whose list is empty
C21_HeaderListInCallOrder ==
    /\ ~resp.headersSent =>
          \A n \in HeaderNames : resp.headers[n] = ValuesCalled(n, Len(trace))
    /\ \A q \in DOMAIN trace :
          trace[q].e = "callback" /\ ~trace[q].sent =>
              \A n \in HeaderNames :
                  LET mv == trace[q].output.multiValueHeaders
                  IN IF ValuesCalled(n, q) = <<>> THEN n \notin DOMAIN mv
                     ELSE n \in DOMAIN mv /\ mv[n] = ValuesCalled(n, q)

\* append and then append again on one header, then the send
C21_Witness ==
    /\ Len(trace) >= 3
    /\ trace[1].e = "append" /\ trace[1].key = "Foo" /\ trace[1].value = "Baz"
    /\ trace[2].e = "append" /\ trace[2].key = "Foo" /\ trace[2].value = "Bar"
    /\ trace[3].e = "callback"
    /\ trace[3].output.multiValueHeaders = [n \in {"Foo"} |-> <<"Baz", "Bar">>]

\* the sends: the events in which the Lambda callback was invoked
Callbacks == {q \in DOMAIN trace : trace[q].e = "callback"}

\* the value of the most recent set or append of n among the first `upto` events
LastValueCalled(n, upto) == trace[Greatest(Changed(n, upto, {"set", "append"}))].value

\* C22: in the output for a load-balancer event `headers` has exactly the names
\* of multiValueHeaders, each with the last value of its list, which on the
\* first send is the value of the most recent set or append of that name
C22_SingleValuedIsLastAppended ==
    \A q \in Callbacks :
        resp.isALB =>
            LET out == trace[q].output
                mv == out.multiValueHeaders
            IN /\ DOMAIN out.headers = DOMAIN mv
               /\ \A n \in DOMAIN mv :
                     /\ out.headers[n] = mv[n][Len(mv[n])]
                     /\ ~trace[q].sent => out.headers[n] = LastValueCalled(n, q)

\* a load-balancer response sent with two values for one header and none for the other
C22_Witness ==
    /\ resp.isALB
    /\ \E q \in Callbacks :
          /\ trace[q].output.multiValueHeaders = [n \in {"Foo"} |-> <<"Bar", "Baz">>]
          /\ trace[q].output.headers = [n \in {"Foo"} |-> "Baz"]

GatewayShape == {"statusCode", "multiValueHeaders", "body", "isBase64Encoded"}
LoadBalancerShape == GatewayShape \cup {"statusDescription", "headers"}

\* the status lines the tests expect, and the stringified code for a code without a message
StatusLine(code) ==
    CASE code = 200 -> "200 OK"
      [] code = 404 -> "404 Not Found"
      [] code = 999 -> "999 999"

\* C23: the kind of event is fixed with the request, and every output handed to
\* the Lambda callback has the fields of that kind: for a gateway event
\* statusCode, multiValueHeaders, body and isBase64Encoded = false and nothing
\* else, for a load-balancer event also headers and statusDescription, which is
\* '<code> <message>' and '<code> <code>' for a code without a message
C23_OutputShapeOfEventSource ==
    [][/\ resp'.isALB = resp.isALB
       /\ \A q \in Callbacks' :
             LET out == trace'[q].output
             IN /\ out.isBase64Encoded = FALSE
                /\ IF resp.isALB
                   THEN /\ DOMAIN out = LoadBalancerShape
                        /\ out.statusDescription = StatusLine(out.statusCode)
                   ELSE DOMAIN out = GatewayShape]_vars

\* a load-balancer event answered with a code that has no message
C23_Witness ==
    \E q \in Callbacks :
        /\ resp.isALB
        /\ trace[q].output.statusCode = 999
        /\ trace[q].output.statusDescription = "999 999"

----------------------------------------------------------------------------
(* Properties of the Request (SpecRequest) *)

\* the url the top-level request had when it was constructed
ConstructedUrl == EventPath \o <<"?">> \o EventRawQuery

UrlAssignedOn(r) == \E q \in DOMAIN trace : trace[q].e = "url" /\ trace[q].r = r

\* C24: originalUrl of every request, top-level or sub-request at any depth, is
\* the url the top-level request was constructed with, whatever urls were
\* assigned on whichever requests
C24_OriginalUrlFixed ==
    \A r \in DOMAIN requests : requests[r].originalUrl = ConstructedUrl

\* a sub-request of a sub-request, made after the url of the top-level request
\* had changed, and a url assigned on it
C24_Witness ==
    /\ Len(requests) = 3
    /\ requests[2].parent = 1 /\ requests[3].parent = 2
    /\ UrlAssignedOn(1) /\ UrlAssignedOn(3)
    /\ requests[3].baseUrl = <<"/", "x">>
    /\ requests[1].url # ConstructedUrl

\* the mount prefix of a sub-request: what its baseUrl adds to its parent's
OwnPrefix(rs, r) ==
    SubSeq(rs[r].baseUrl, Len(rs[rs[r].parent].baseUrl) + 1, Len(rs[r].baseUrl))

\* the url of the parent is the mount prefix of the sub-request followed by its url
JoinsParent(rs, r) == rs[rs[r].parent].url = OwnPrefix(rs, r) \o rs[r].url

\* C25: whatever url is assigned on whichever request, the url of every
\* request that has sub-requests is, for each of them, the mount prefix of the
\* sub-request followed by the sub-request's url, and no baseUrl changes
C25_ParentUrlIsPrefixThenChildUrl ==
    [][\A r \in DOMAIN requests' :
          /\ requests'[r].parent # 0 => JoinsParent(requests', r)
          /\ r \in DOMAIN requests => requests'[r].baseUrl = requests[r].baseUrl]_vars

\* url with everything from the first '?' on removed
RECURSIVE BeforeQuery(_)
BeforeQuery(url) ==
    IF url = <<>> \/ Head(url) = "?" THEN <<>> ELSE <<Head(url)>> \o BeforeQuery(Tail(url))

\* C26: for every request and sub-request, when it is constructed and after
\* every url assignment, made on it or reaching it from a sub-request, path is
\* url without everything from the first '?' on
C26_PathIsUrlWithoutQuery ==
    \A r \in DOMAIN requests : requests[r].path = BeforeQuery(requests[r].url)

\* a url with a query string assigned on a sub-request of a sub-request, seen
\* in the path of the top-level request
C26_Witness ==
    /\ Len(requests) = 3
    /\ requests[2].parent = 1 /\ requests[3].parent = 2
    /\ trace # <<>> /\ trace[Len(trace)].e = "url" /\ trace[Len(trace)].r = 3
    /\ requests[3].url = <<"/", "x", "/", "y", "?", "q=2">>
    /\ requests[1].url = <<"/", "a", "/", "x", "/", "y", "?", "q=2">>
    /\ requests[1].path = <<"/", "a", "/", "x", "/", "y">>

\* the requests from r up to the top-level request
RECURSIVE UpFrom(_, _)
UpFrom(rs, r) == IF r = 0 THEN {} ELSE {r} \cup UpFrom(rs, rs[r].parent)

\* the step is the assignment of a url on request r
AssignsUrlOn(r) ==
    /\ Len(trace') = Len(trace) + 1
    /\ trace'[Len(trace')].e = "url" /\ trace'[Len(trace')].r = r

QueryValueStored == \E q \in DOMAIN trace : trace[q].e = "query"

\* C27: an assignment of url changes url and path of that request and of its
\* ancestors and nothing else, the parsed query least of all; while no handler
\* stored a value in query, the query of every request, also of sub-requests
\* made after the assignment, is the one parsed from the event
C27_UrlAssignmentKeepsQuery ==
    [][/\ \A r \in DOMAIN requests :
             AssignsUrlOn(r) =>
                 /\ queries' = queries
                 /\ \A o \in DOMAIN requests :
                       /\ requests'[o] = [requests[o] EXCEPT !.url = requests'[o].url,
                                                             !.path = requests'[o].path]
                       /\ o \notin UpFrom(requests, r) => requests'[o] = requests[o]
       /\ ~QueryValueStored' =>
             \A r \in DOMAIN requests' : queries'[requests'[r].query] = EventQuery]_vars

\* a url with another query string assigned on a sub-request, and a
\* sub-request made of it afterwards
C27_Witness ==
    /\ Len(requests) = 3
    /\ requests[2].parent = 1 /\ requests[3].parent = 2
    /\ UrlAssignedOn(2) /\ ~UrlAssignedOn(3) /\ ~UrlAssignedOn(1)
    /\ requests[2].url = <<"/", "x", "/", "y", "?", "q=2">>
    /\ requests[3].url = <<"/", "y", "?", "q=2">>
    /\ queries[requests[3].query] = EventQuery

\* the step made a sub-request with params: the one a matched route chain
\* derives for its handlers
MakesRouteSubRequest ==
    /\ Len(requests') = Len(requests) + 1
    /\ requests'[Len(requests')].params # {}

\* C28: the sub-request a matched route chain derives has the params taken from
\* the path its parent has at that moment and the baseUrl of its parent, and
\* leaves the parent as it was; from then on no step changes the params of any
\* request, and an assignment to a member of params throws
C28_RouteSubRequestParamsFrozen ==
    [][/\ MakesRouteSubRequest =>
             LET sub == requests'[Len(requests')]
                 p == sub.parent
             IN /\ sub.params = {<<"id", requests[p].path[2]>>}
                /\ sub.baseUrl = requests[p].baseUrl
                /\ requests'[p] = requests[p]
       /\ \A r \in DOMAIN requests : requests'[r].params = requests[r].params
       /\ \A r \in DOMAIN requests :
             (Len(trace') = Len(trace) + 1 /\ trace'[Len(trace')].e = "params")
                 => trace'[Len(trace')].threw = "TypeError"]_vars

\* a route sub-request whose parent got another url afterwards, and an
\* assignment to its params
C28_Witness ==
    /\ Len(requests) = 3
    /\ requests[3].parent = 2
    /\ requests[3].params = {<<"id", "b">>}
    /\ requests[2].path = <<"/", "x">>
    /\ \E q \in DOMAIN trace : trace[q].e = "params" /\ trace[q].r = 3

\* the step made a sub-request
MakesSubRequest == Len(requests') = Len(requests) + 1

\* C29: a sub-request has the query object and the body of the request it is
\* made of, as they are at that moment: what a handler stored in the body or
\* in the query of a request is what the sub-requests made of it afterwards show
C29_SubRequestSharesState ==
    [][MakesSubRequest =>
          LET sub == requests'[Len(requests')]
          IN /\ sub.query = requests[sub.parent].query
             /\ sub.body = requests[sub.parent].body]_vars

----------------------------------------------------------------------------
(* Properties of RouteMatchingProcessorChain.matches (SpecCase) *)

\* the method of the event in capitals
InCapitals(m) == IF m = "get" THEN "GET" ELSE IF m = "PoSt" THEN "POST" ELSE m

\* the predicate of a route chain c for the request req
RoutePredicate(c, req) ==
    /\ c.method = NoMethod \/ c.method = InCapitals(req.httpMethod)
    /\ IF c.sensitive THEN SameLetters(c.path, PathOf(req.url))
                      ELSE SameUpToCase(c.path, PathOf(req.url))

\* Router.handle is looking at a route chain
LooksAtRoute ==
    /\ cur.op = "call" /\ cur.k.k = "proc"
    /\ handles[cur.k.a].index <= Len(processors[handles[cur.k.a].router])
    /\ processors[handles[cur.k.a].router][handles[cur.k.a].index].type = "route"

\* C30: a route chain is run for a request exactly when it was registered
\* without a method or with the method of the request in capitals, and its
\* pattern matches the path of the request; otherwise the dispatch passes over
\* it, so that a handler is only ever invoked by a chain whose predicate holds
C30_RouteMatchesMethodAndPath ==
    /\ [][LooksAtRoute =>
             LET hd == handles[cur.k.a]
                 c == processors[hd.router][hd.index]
             IN IF RoutePredicate(c, hd.req)
                THEN Len(runs') = Len(runs) + 1 /\ runs'[Len(runs')].ci = hd.index
                ELSE runs' = runs /\ handles'[cur.k.a].index = hd.index + 1]_vars
    /\ [](\A q \in 1 .. Len(runs) :
             LET c == processors[handles[runs[q].h].router][runs[q].ci]
             IN (c.type = "route" /\ runs[q].invoked > 0) => RoutePredicate(c, runs[q].req))

\* a request sent as 'PoSt' for '/cars' passes over the chain registered for
\* GET '/cars' and runs the handler of the chain registered for all methods
C30_Witness ==
    /\ Len(handles) = 1 /\ handles[1].req.httpMethod = "PoSt" /\ handles[1].req.method = "POST"
    /\ PathOf(handles[1].req.url) = <<"/", "cars">>
    /\ Len(processors[0]) = 2
    /\ processors[0][1].method = "GET" /\ processors[0][1].path = PCars
    /\ processors[0][2].method = NoMethod
    /\ Len(runs) = 1 /\ runs[1].ci = 2 /\ runs[1].invoked > 0

----------------------------------------------------------------------------
(* Properties of Router.mount (SpecMethod) *)

\* C31: the method given to mount is case-insensitive: a route chain mounted
\* with a method that, in capitals, is the method of the request, on a path
\* that matches, is run for the request like one mounted in capitals
C31_MountMethodCaseInsensitive ==
    [][LooksAtRoute =>
          LET hd == handles[cur.k.a]
              c == processors[hd.router][hd.index]
          IN (ToUpperCase(c.method) = hd.req.method /\ RouteTest(c.path, PathOf(hd.req.url), c.sensitive))
                 => (Len(runs') = Len(runs) + 1 /\ runs'[Len(runs')].ci = hd.index)]_vars

----------------------------------------------------------------------------
(* Properties of the handler of last resort (Spec) *)

\* the handler of last resort is about to be called with an error that carries a status code
LastResortWithStatus ==
    cur.op = "call" /\ cur.k.k = "last" /\ ErrorStatusCode(cur.arg) # 0

\* C32: when the chain list is exhausted with an error in flight that carries
\* a status code, the last resort responds with that status code, not with 500
C32_LastResortUsesErrorStatus ==
    [][LastResortWithStatus =>
          /\ Len(cbCalls') = Len(cbCalls) + 1
          /\ cbCalls'[Len(cbCalls')] = ErrorStatusCode(cur.arg)]_vars

----------------------------------------------------------------------------
(* Properties of Router.route (SpecRoute) *)

\* the path is the path of the route, with at most one slash behind it
IsRoutePath(pattern, path) ==
    \/ path = SubSeq(path, 1, 2 * Len(pattern)) /\ SubTest(pattern, path, FALSE)
    \/ path = SubSeq(path, 1, 2 * Len(pattern)) \o <<"/">> /\ SubTest(pattern, path, FALSE)

\* the chain an appender of the route added is for the request of the event
ForEvent(c) ==
    /\ c.method = NoMethod \/ c.method = handles[1].req.method
    /\ \E q \in DOMAIN processors[0] :
          processors[0][q].type = "sub" /\ IsRoutePath(processors[0][q].path, PathOf(handles[1].req.url))

\* the runs of the chains of the route's router
RouteRuns == {q \in DOMAIN runs : handles[runs[q].h].router = 1}

\* C33: the handlers given to the appenders of a route run only for requests
\* with the appender's method (any method for all) whose path is the route's
\* path, with at most one slash behind it; such a request is dispatched to
\* them, and the chains of successive appender calls are tried in the order
\* of the calls
C33_RouteBuilder ==
    /\ [](\A q \in RouteRuns : ForEvent(processors[1][runs[q].ci]))
    /\ [](\A q \in RouteRuns : \A j \in 1 .. (runs[q].ci - 1) :
             ForEvent(processors[1][j]) =>
                 \E q2 \in RouteRuns : q2 < q /\ runs[q2].h = runs[q].h /\ runs[q2].ci = j)
    /\ [][(LooksAtRoute /\ handles[cur.k.a].router = 1
                /\ ForEvent(processors[1][handles[cur.k.a].index]))
             => (Len(runs') = Len(runs) + 1 /\ runs'[Len(runs')].ci = handles[cur.k.a].index)]_vars
    /\ [][(phase = "setup" /\ processors'[1] # processors[1])
             => (RouteBuilt /\ SubSeq(processors'[1], 1, Len(processors[1])) = processors[1]
                 /\ UNCHANGED processors[0])]_vars

\* GET '/cars/' on a route with all(h1).get(h2): h1 runs and calls next, then h2 runs
C33_Witness ==
    /\ Len(handles) = 2 /\ PathOf(handles[1].req.url) = <<"/", "cars", "/">>
    /\ Len(processors[1]) = 2
    /\ processors[1][1].method = NoMethod /\ processors[1][2].method = "GET"
    /\ Len(runs) = 2 /\ runs[1].ci = 1 /\ runs[2].ci = 2
    /\ runs[1].invoked > 0 /\ runs[2].invoked > 0

----------------------------------------------------------------------------
(* Properties of the control path of one request (SpecAsync) *)

\* C34: one control path per request: the completion continuation of a chain
\* run (the continuation handed to its last handler) and the continuation of
\* a Router.handle invocation are invoked at most once, no chain is run twice
\* in one invocation and no chain run invokes more handlers than it has
C34_OneControlPath ==
    /\ \A r \in DOMAIN runs : runs[r].doneCalled <= 1
    /\ \A h \in DOMAIN handles : handles[h].nextCalled <= 1
    /\ \A r1, r2 \in DOMAIN runs : (runs[r1].h = runs[r2].h /\ runs[r1].ci = runs[r2].ci) => r1 = r2
    /\ \A r \in DOMAIN runs : runs[r].invoked <= Len(runs[r].subs)

----------------------------------------------------------------------------
(* Properties of sub-router delegation (SpecAsync) *)

\* a handler of run r is invoked in this step
InvokesHandler(r) == runs'[r].invoked = runs[r].invoked + 1

\* a handler of run r was invoked, returned a promise, and its continuation was not called yet
AwaitsContinuation(r) == \E t \in tasks : t.r = r /\ t.b \notin NextThenReject

\* run r belongs to a router mounted on the router of run p, by a chain registered before the chain of p
InsideEarlierMount(r, p) ==
    /\ runs[r].h # runs[p].h
    /\ handles[runs[r].h].next = KProc(runs[p].h)
    /\ handles[runs[r].h].ci < runs[p].ci

\* C35: delegation to a mounted router is depth-first: the continuation the
\* parent gave for the mount is called only when the nested router is at the
\* end of its chain list, and no handler of a parent chain registered after
\* the mount is invoked while a handler inside the nested router was invoked
\* and its continuation has not been called
C35_DepthFirst ==
    /\ [][\A h \in DOMAIN handles :
             handles'[h].nextCalled > handles[h].nextCalled
                 => handles[h].index > Len(processors[handles[h].router])]_vars
    /\ [][\A p \in DOMAIN runs : InvokesHandler(p) =>
             \A r \in DOMAIN runs : InsideEarlierMount(r, p) => ~AwaitsContinuation(r)]_vars

----------------------------------------------------------------------------
(* Properties of the route sentinel under Router.handle (Spec) *)

\* the sentinel is the argument of the call about to be made
SentinelInFlight == cur.op = "call" /\ cur.arg = RouteSentinel

\* C36: next('route') ends only the handler list of the chain it was called
\* in: the sentinel is handed to a later closure of that chain alone, which
\* ends the chain; the dispatch loop, the first closure of the next matching
\* chain and the router's completion continuation are never given it, so the
\* following chain runs its handlers as without it and the completion
\* continuation is called with no error
C36_SentinelEndsOnlyItsChain ==
    SentinelInFlight => (cur.k.k = "run" /\ cur.k.b > 1)

----------------------------------------------------------------------------
(* Properties of the cursor of Router.handle (SpecReroute) *)

\* the call about to be made is processRequest of invocation h
AtProcessRequest(h) == cur.op = "call" /\ cur.k = KProc(h)

\* C37: within one Router.handle invocation the cursor only moves forward,
\* by one chain for every call of processRequest and not otherwise, so each
\* chain's predicate is evaluated at most once; each chain is run at most
\* once and the chains are run in the order of the list, so that a chain
\* before the running one is never run later, also after a url assignment
\* that makes it match
C37_CursorOnlyForward ==
    /\ [][\A h \in DOMAIN handles :
             handles'[h].index = IF AtProcessRequest(h) THEN handles[h].index + 1 ELSE handles[h].index]_vars
    /\ [](\A r1, r2 \in DOMAIN runs :
             (r1 < r2 /\ runs[r1].h = runs[r2].h) => runs[r1].ci < runs[r2].ci)
    /\ [][\A r \in (DOMAIN runs' \ DOMAIN runs) : runs'[r].ci = handles[runs'[r].h].index]_vars

\* GET '/cars/x': the chain of get('/cars') is passed over, the handler of a
\* later chain assigns '/cars' to url, the earlier chain now matches and the
\* invocation ends without having run it
C37_Witness ==
    /\ Len(handles) = 1 /\ handles[1].nextCalled = 1
    /\ Len(processors[0]) = 2
    /\ processors[0][1].type = "route" /\ matches(processors[0][1], handles[1].req)
    /\ Len(runs) = 1 /\ runs[1].ci = 2 /\ runs[1].assigned = <<"/", "cars">>

----------------------------------------------------------------------------
(* Properties of the return from a mounted router (SpecResume) *)

\* invocation h, of a mounted router, is at the end of its chain list
NestedExhausted(h) ==
    /\ AtProcessRequest(h)
    /\ handles[h].index > Len(processors[handles[h].router])
    /\ handles[h].next.k = "proc"

\* the url of the request of invocation p is the prefix invocation h was
\* mounted under followed by the url of the request of h
UrlJoined(hs, p, h) ==
    hs[p].req.url = AddedPrefix(hs[p].req.baseUrl, hs[h].req) \o hs[h].req.url

----------------------------------------------------------------------------
(* Properties of the completion continuation of Router.handle (SpecAsync) *)

\* the chain under the cursor of invocation h; 0 at the end of the list
UnderCursor(h) == ProcessorAt(processors[handles[h].router], handles[h].index)

\* the call of processRequest of invocation h about to be made passes over the chain under the cursor
PassesOver(h) ==
    /\ AtProcessRequest(h)
    /\ UnderCursor(h) # 0
    /\ ~matches(processors[handles[h].router][UnderCursor(h)], handles[h].req)

\* C39: Router.handle calls its completion continuation exactly once, when
\* the end of the chain list is reached, with the error in flight; a chain
\* whose predicate is false invokes no handler and hands the error in flight
\* on unchanged
C39_CompletionOnceWithErrorInFlight ==
    /\ [](\A h \in DOMAIN handles : handles[h].nextCalled <= 1)
    /\ [][\A h \in DOMAIN handles :
             (AtProcessRequest(h) /\ UnderCursor(h) = 0) =>
                 (cur' = Call(handles[h].next, cur.arg) /\ handles'[h].nextCalled = handles[h].nextCalled + 1)]_vars
    /\ [][\A h \in DOMAIN handles :
             (handles'[h].nextCalled # handles[h].nextCalled) => (AtProcessRequest(h) /\ UnderCursor(h) = 0)]_vars
    /\ [][\A h \in DOMAIN handles :
             PassesOver(h) =>
                 (cur' = Call(KProc(h), cur.arg) /\ runs' = runs /\ Len(handles') = Len(handles))]_vars

----------------------------------------------------------------------------
(* Properties of the cursor across invocations (SpecReuse) *)

\* C40: the cursor belongs to one invocation of Router.handle: every
\* invocation, of a router mounted twice or for a further request while
\* handlers of an earlier one await, starts at the first chain of its router;
\* a call of processRequest moves the cursor of its own invocation alone; and
\* the chain under the cursor of an invocation, when it matches, is run for
\* that invocation, so that no invocation skips or repeats chains because of
\* another
C40_CursorPerInvocation ==
    /\ [][\A h \in (DOMAIN handles' \ DOMAIN handles) : handles'[h].index = 1]_vars
    /\ [][\A g \in DOMAIN handles :
             handles'[g].index = IF AtProcessRequest(g) THEN handles[g].index + 1 ELSE handles[g].index]_vars
    /\ [][\A h \in DOMAIN handles :
             (AtProcessRequest(h) /\ UnderCursor(h) # 0 /\ ~PassesOver(h)) =>
                 IF processors[handles[h].router][UnderCursor(h)].type = "sub"
                 THEN /\ Len(handles') = Len(handles) + 1
                      /\ handles'[Len(handles')].next = KProc(h)
                      /\ handles'[Len(handles')].ci = handles[h].index
                 ELSE /\ Len(runs') = Len(runs) + 1
                      /\ runs'[Len(runs')].h = h
                      /\ runs'[Len(runs')].ci = handles[h].index]_vars
    /\ [](\A r1, r2 \in DOMAIN runs :
             (r1 < r2 /\ runs[r1].h = runs[r2].h) => runs[r1].ci < runs[r2].ci)

\* two requests on an application with two chains: the handler of the first
\* chain awaits for the first request, the second request is dispatched and
\* runs the first chain too, then the first request goes on to the second chain
C40_Witness ==
    /\ Cardinality(TopLevel) = 2 /\ Len(handles) = 2
    /\ Len(runs) >= 3
    /\ runs[1].h = 1 /\ runs[1].ci = 1
    /\ runs[2].h = 2 /\ runs[2].ci = 1 /\ runs[2].invoked > 0
    /\ runs[3].h = 1 /\ runs[3].ci = 2 /\ runs[3].invoked > 0

====
